---- MODULE Spec2Model ----
(***************************************************************************)
(* Channel update core of the vector payment-channel protocol: the state   *)
(* transition applyUpdate, the update generator, the Merkle commitment over *)
(* the active transfers, the two-party update exchange and the engine's     *)
(* restoreState.                                                            *)
(*                                                                          *)
(* restoreState and the restore locks are translated from                   *)
(* src/modules/engine/src/index.ts.  The protocol package (update.ts,       *)
(* sync.ts, validate.ts) is not among the sources: applyUpdate and          *)
(* generateUpdate follow spec sections 4.1 and 4.3 and the expectations of  *)
(* src/modules/protocol/src/testing/update.spec.ts, the validator and the   *)
(* exchange follow spec sections 4.4 and 4.5.                               *)
(***************************************************************************)
EXTENDS Integers, Sequences, FiniteSets, TLC

(***************************************************************************)
(* Bounds of the model.                                                     *)
(***************************************************************************)
\* A run takes the channel at most MaxUpdates nonces beyond the state it
\* starts from, one less when it loses a store or works on a second channel.
MaxUpdates == 2
\* The chain never holds more than MaxOnchain units of the asset.
MaxOnchain == 1
\* applyUpdate on its own is applied at most MaxApplied times in a row, with
\* transfers of up to MaxTransfers ids and amounts up to MaxAmount.
MaxApplied == 2
MaxTransfers == 3
MaxAmount == 1
\* generateUpdate on its own reads on-chain balances and deposits of up to
\* MaxChain, and of TestOnchain.
MaxChain == 3

(***************************************************************************)
(* Identities.                                                              *)
(***************************************************************************)
Peers == {"alice", "bob"}

Other(p) == IF p = "alice" THEN "bob" ELSE "alice"

\* participants = [aliceAddr, bobAddr]; the peer's name stands for its address.
Participants == <<"alice", "bob">>

\* Slot of a peer in participants, balances[i].amount and signatures.
Slot(p) == IF p = "alice" THEN 1 ELSE 2

\* The identifiers of the sample deployment, as character codes:
\* alice is vector8Wxf..., bob is vector5ArR...; they differ at the 7th character.
PublicIdentifier(p) ==
    IF p = "alice" THEN <<118, 101, 99, 116, 111, 114, 56, 87, 120, 102>>
                   ELSE <<118, 101, 99, 116, 111, 114, 53, 65, 114, 82>>

RECURSIVE LexLess(_, _)
\* Lexicographic order of two identifier strings.
LexLess(s, t) ==
    IF t = <<>> THEN FALSE
    ELSE IF s = <<>> THEN TRUE
    ELSE IF Head(s) # Head(t) THEN Head(s) < Head(t)
    ELSE LexLess(Tail(s), Tail(t))

ChannelAddress == "0xccc"
OtherAddress == "0xddd"
ExternalAddress == "0xffff"
AssetId == "0x0"
SetupTimeout == "8267345"

\* The transfer's `to` when it does not include the channel participants.
ExternalTo == <<ExternalAddress, "bob">>

(***************************************************************************)
(* Hashes.  keccak is modelled as an injective function on integers.        *)
(***************************************************************************)
ZeroHash == 0

\* Leaf hashes are below LeafSpace; pair hashes are above it.
LeafSpace == 100

HashPair(l, r) == LeafSpace + ((l + r) * (l + r + 1)) \div 2 + r

RECURSIVE InsertSorted(_, _)
InsertSorted(x, s) ==
    IF s = <<>> THEN <<x>>
    ELSE IF x <= Head(s) THEN <<x>> \o s
    ELSE <<Head(s)>> \o InsertSorted(x, Tail(s))

\* The hashes left in the order they were supplied.
SuppliedOrder(s) == s

RECURSIVE SortHashes(_)
SortHashes(s) == IF s = <<>> THEN <<>> ELSE InsertSorted(Head(s), SortHashes(Tail(s)))

RECURSIVE HashLevel(_)
\* One level of the tree: neighbours are hashed in pairs, the last leaf of an
\* odd level is paired with itself.
HashLevel(s) ==
    IF s = <<>> THEN <<>>
    ELSE IF Len(s) = 1 THEN <<HashPair(s[1], s[1])>>
    ELSE <<HashPair(s[1], s[2])>> \o HashLevel(Tail(Tail(s)))

RECURSIVE RootOfLevel(_)
RootOfLevel(s) ==
    IF s = <<>> THEN ZeroHash
    ELSE IF Len(s) = 1 THEN s[1]
    ELSE RootOfLevel(HashLevel(s))

\* generateMerkleTreeData(transfers).root for the sequence of the transfers'
\* initialStateHash values.
MerkleRoot(hashes) == RootOfLevel(SortHashes(hashes))

RECURSIVE SetToSeq(_)
\* Some enumeration of a set (the store returns the active transfers in an
\* order of its own).
SetToSeq(S) ==
    IF S = {} THEN <<>>
    ELSE LET x == CHOOSE y \in S : TRUE IN <<x>> \o SetToSeq(S \ {x})

\* Root over a set of active transfers.
RootOfTransfers(ts) == MerkleRoot(SetToSeq({t.initialStateHash : t \in ts}))

(***************************************************************************)
(* Results.                                                                 *)
(***************************************************************************)
Ok(v) == [isError |-> FALSE, error |-> "", value |-> v]

Fail(e, v) == [isError |-> TRUE, error |-> e, value |-> v]

(***************************************************************************)
(* Updates, transfers and channel states.                                   *)
(***************************************************************************)
UpdateTypes == {"setup", "deposit", "create", "resolve"}

NoSignature == [by |-> "none", over |-> <<>>]

NoDetails ==
    [timeout |-> "0", latestDepositNonce |-> 0, merkleRoot |-> ZeroHash,
     transferId |-> 0, transferInitialBalance |-> <<0, 0>>,
     transferTo |-> Participants, transferResolver |-> "none"]

\* The latestUpdate of a channel that was never set up.
NoUpdate ==
    [channelAddress |-> ChannelAddress, type |-> "none", nonce |-> 0,
     fromIdentifier |-> "none", toIdentifier |-> "none", assetId |-> AssetId,
     balance |-> <<0, 0>>, details |-> NoDetails,
     aliceSignature |-> NoSignature, bobSignature |-> NoSignature]

NoTransfer ==
    [transferId |-> 0, assetId |-> AssetId,
     initialBalance |-> [amount |-> <<0, 0>>, to |-> Participants],
     initialStateHash |-> ZeroHash]

\* The state a setup update is applied to: nonce 0, nothing else yet.
EmptyChannel ==
    [channelAddress |-> ChannelAddress, participants |-> Participants,
     publicIdentifiers |-> <<PublicIdentifier("alice"), PublicIdentifier("bob")>>,
     networkContext |-> "ctx", nonce |-> 0, timeout |-> "0",
     balances |-> <<>>, assetIds |-> <<>>, lockedBalance |-> <<>>,
     merkleRoot |-> ZeroHash, latestDepositNonce |-> 0, latestUpdate |-> NoUpdate]

\* Index of an asset in assetIds, 0 when it is not there.
AssetIdx(state, assetId) ==
    IF \E i \in 1..Len(state.assetIds) : state.assetIds[i] = assetId
    THEN CHOOSE i \in 1..Len(state.assetIds) : state.assetIds[i] = assetId
    ELSE 0

TransferAmount(transfer) ==
    transfer.initialBalance.amount[1] + transfer.initialBalance.amount[2]

\* Canonical update hash: everything but the signatures.
HashChannelUpdate(u) ==
    <<u.channelAddress, u.type, u.nonce, u.balance, u.assetId, u.details,
      u.fromIdentifier, u.toIdentifier>>

SignMessage(p, hash) == [by |-> p, over |-> hash]

\* A signature slot verifies when it was made by the slot's participant
\* over the update's hash.
SignatureValid(u, p) ==
    LET sig == IF p = "alice" THEN u.aliceSignature ELSE u.bobSignature
    IN  sig = SignMessage(p, HashChannelUpdate(u))

\* validateChannelUpdateSignatures(..., "both")
BothSignaturesValid(u) == SignatureValid(u, "alice") /\ SignatureValid(u, "bob")

\* A signature put into the first slot, whoever signs.
AddSignatureFirst(u, p) ==
    [u EXCEPT !.aliceSignature = SignMessage(p, HashChannelUpdate(u))]

AddSignature(u, p) ==
    IF p = "alice"
    THEN [u EXCEPT !.aliceSignature = SignMessage(p, HashChannelUpdate(u))]
    ELSE [u EXCEPT !.bobSignature = SignMessage(p, HashChannelUpdate(u))]

(***************************************************************************)
(* StateTransition: applyUpdate(update, previousState, transfer).           *)
(***************************************************************************)
\* A setup taken on any previous state.
SetupAnywhere(state) == TRUE

\* A setup is applied to a channel that has no update yet.
SetupApplicable(state) == state.nonce = 0

\* A setup that builds the channel anew instead of copying the previous
\* state.
ApplySetupAnew(update, state) ==
    IF ~SetupApplicable(state) THEN Fail("ApplyUpdateFailed", state)
    ELSE Ok([EmptyChannel EXCEPT
                !.nonce = state.nonce + 1,
                !.timeout = update.details.timeout,
                !.latestUpdate = update])

ApplySetup(update, state) ==
    IF ~SetupApplicable(state) THEN Fail("ApplyUpdateFailed", state)
    ELSE Ok([state EXCEPT
                !.nonce = state.nonce + 1,
                !.timeout = update.details.timeout,
                !.balances = <<>>,
                !.assetIds = <<>>,
                !.lockedBalance = <<>>,
                !.latestDepositNonce = 0,
                !.merkleRoot = ZeroHash,
                !.latestUpdate = update])

\* The locked balances left without an entry for a new asset.
NoLockedEntry(lockedBalance) == lockedBalance

\* The locked balances with the entry of a new asset: nothing is locked yet.
NewLockedEntry(lockedBalance) == Append(lockedBalance, 0)

\* A deposit that puts a new asset in front of the others.
ApplyDepositInFront(update, state) ==
    LET i == AssetIdx(state, update.assetId) IN
    IF i = 0
    THEN Ok([state EXCEPT
                !.nonce = state.nonce + 1,
                !.assetIds = <<update.assetId>> \o state.assetIds,
                !.balances = <<update.balance>> \o state.balances,
                !.lockedBalance = <<0>> \o state.lockedBalance,
                !.latestDepositNonce = update.details.latestDepositNonce,
                !.latestUpdate = update])
    ELSE Ok([state EXCEPT
                !.nonce = state.nonce + 1,
                !.balances[i] = update.balance,
                !.latestDepositNonce = update.details.latestDepositNonce,
                !.latestUpdate = update])

\* A deposit that is reconciled without being recorded as the latest update.
ApplyDepositUnrecorded(update, state) ==
    LET i == AssetIdx(state, update.assetId) IN
    IF i = 0
    THEN Ok([state EXCEPT
                !.nonce = state.nonce + 1,
                !.assetIds = Append(state.assetIds, update.assetId),
                !.balances = Append(state.balances, update.balance),
                !.lockedBalance = Append(state.lockedBalance, 0),
                !.latestDepositNonce = update.details.latestDepositNonce])
    ELSE Ok([state EXCEPT
                !.nonce = state.nonce + 1,
                !.balances[i] = update.balance,
                !.latestDepositNonce = update.details.latestDepositNonce])

ApplyDeposit(update, state) ==
    LET i == AssetIdx(state, update.assetId) IN
    IF i = 0
    THEN Ok([state EXCEPT
                !.nonce = state.nonce + 1,
                !.assetIds = Append(state.assetIds, update.assetId),
                !.balances = Append(state.balances, update.balance),
                !.lockedBalance = NewLockedEntry(state.lockedBalance),
                !.latestDepositNonce = update.details.latestDepositNonce,
                !.latestUpdate = update])
    ELSE Ok([state EXCEPT
                !.nonce = state.nonce + 1,
                !.balances[i] = update.balance,
                !.latestDepositNonce = update.details.latestDepositNonce,
                !.latestUpdate = update])

\* A create that locks only the first amount of the transfer.
ApplyCreateFirstAmount(update, state, transfer) ==
    LET i == AssetIdx(state, update.assetId) IN
    IF transfer = NoTransfer \/ i = 0 THEN Fail("ApplyUpdateFailed", state)
    ELSE Ok([state EXCEPT
                !.nonce = state.nonce + 1,
                !.lockedBalance[i] = state.lockedBalance[i]
                                        + transfer.initialBalance.amount[1],
                !.balances[i] = update.balance,
                !.merkleRoot = update.details.merkleRoot,
                !.latestUpdate = update])

\* A create that takes the transfer's amount off the balances without
\* locking it: the conservation law tells it from ApplyCreate.
ApplyCreateUnlocked(update, state, transfer) ==
    LET i == AssetIdx(state, update.assetId) IN
    IF transfer = NoTransfer \/ i = 0 THEN Fail("ApplyUpdateFailed", state)
    ELSE Ok([state EXCEPT
                !.nonce = state.nonce + 1,
                !.balances[i] = update.balance,
                !.merkleRoot = update.details.merkleRoot,
                !.latestUpdate = update])

ApplyCreate(update, state, transfer) ==
    LET i == AssetIdx(state, update.assetId) IN
    IF transfer = NoTransfer \/ i = 0 THEN Fail("ApplyUpdateFailed", state)
    ELSE Ok([state EXCEPT
                !.nonce = state.nonce + 1,
                !.lockedBalance[i] = state.lockedBalance[i] + TransferAmount(transfer),
                !.balances[i] = update.balance,
                !.merkleRoot = update.details.merkleRoot,
                !.latestUpdate = update])

\* A resolve that unlocks whatever the state has locked.
ApplyResolveUnguarded(update, state, transfer) ==
    LET i == AssetIdx(state, update.assetId) IN
    IF transfer = NoTransfer \/ i = 0 THEN Fail("ApplyUpdateFailed", state)
    ELSE Ok([state EXCEPT
                !.nonce = state.nonce + 1,
                !.lockedBalance[i] = state.lockedBalance[i] - TransferAmount(transfer),
                !.balances[i] = update.balance,
                !.merkleRoot = update.details.merkleRoot,
                !.latestUpdate = update])

\* A resolve that unlocks only the first amount of the transfer.
ApplyResolveFirstAmount(update, state, transfer) ==
    LET i == AssetIdx(state, update.assetId) IN
    IF transfer = NoTransfer \/ i = 0 THEN Fail("ApplyUpdateFailed", state)
    ELSE IF state.lockedBalance[i] < TransferAmount(transfer)
    THEN Fail("ApplyUpdateFailed", state)
    ELSE Ok([state EXCEPT
                !.nonce = state.nonce + 1,
                !.lockedBalance[i] = state.lockedBalance[i]
                                        - transfer.initialBalance.amount[1],
                !.balances[i] = update.balance,
                !.merkleRoot = update.details.merkleRoot,
                !.latestUpdate = update])

\* A resolve that pays the transfer out and leaves its amount locked.
ApplyResolveLocked(update, state, transfer) ==
    LET i == AssetIdx(state, update.assetId) IN
    IF transfer = NoTransfer \/ i = 0 THEN Fail("ApplyUpdateFailed", state)
    ELSE IF state.lockedBalance[i] < TransferAmount(transfer)
    THEN Fail("ApplyUpdateFailed", state)
    ELSE Ok([state EXCEPT
                !.nonce = state.nonce + 1,
                !.balances[i] = update.balance,
                !.merkleRoot = update.details.merkleRoot,
                !.latestUpdate = update])

\* A resolve that unlocks the funds and keeps the merkle root of the state.
ApplyResolveStaleRoot(update, state, transfer) ==
    LET i == AssetIdx(state, update.assetId) IN
    IF transfer = NoTransfer \/ i = 0 THEN Fail("ApplyUpdateFailed", state)
    ELSE IF state.lockedBalance[i] < TransferAmount(transfer)
    THEN Fail("ApplyUpdateFailed", state)
    ELSE Ok([state EXCEPT
                !.nonce = state.nonce + 1,
                !.lockedBalance[i] = state.lockedBalance[i] - TransferAmount(transfer),
                !.balances[i] = update.balance,
                !.latestUpdate = update])

ApplyResolve(update, state, transfer) ==
    LET i == AssetIdx(state, update.assetId) IN
    IF transfer = NoTransfer \/ i = 0 THEN Fail("ApplyUpdateFailed", state)
    ELSE IF state.lockedBalance[i] < TransferAmount(transfer)
    THEN Fail("ApplyUpdateFailed", state)
    ELSE Ok([state EXCEPT
                !.nonce = state.nonce + 1,
                !.lockedBalance[i] = state.lockedBalance[i] - TransferAmount(transfer),
                !.balances[i] = update.balance,
                !.merkleRoot = update.details.merkleRoot,
                !.latestUpdate = update])

\* applyUpdate taking an update of any other type for a deposit.
applyUpdateAnyType(update, state, transfer) ==
    CASE update.type = "setup" -> ApplySetup(update, state)
      [] update.type = "create" -> ApplyCreate(update, state, transfer)
      [] update.type = "resolve" -> ApplyResolve(update, state, transfer)
      [] OTHER -> ApplyDeposit(update, state)

\* An error result carries the previous state as its value: nothing changed.
applyUpdate(update, state, transfer) ==
    CASE update.type = "setup" -> ApplySetup(update, state)
      [] update.type = "deposit" -> ApplyDeposit(update, state)
      [] update.type = "create" -> ApplyCreate(update, state, transfer)
      [] update.type = "resolve" -> ApplyResolve(update, state, transfer)
      [] OTHER -> Fail("BadUpdateType", state)

(***************************************************************************)
(* Transfers.                                                               *)
(***************************************************************************)
\* transferId = keccak(channelAddress, ..., transferState, channelNonce): one
\* per channel nonce and initiator.
TransferIdOf(nonce, initiator) == 2 * nonce + Slot(initiator) - 1

\* hashTransferState: a hash of the transfer's initial state (amounts and
\* payees), below LeafSpace.  Equal initial states have equal hashes.
HashTransferState(amount, to) ==
    1 + amount[1] + 10 * amount[2] + (IF to = Participants THEN 0 ELSE 50)

\* The external `to` of a transfer created by p: p's own slot pays out of
\* the channel.
ExternalToOf(p) == IF p = "alice" THEN ExternalTo ELSE <<"alice", ExternalAddress>>

\* Root over the active transfers, in the order the store returns them.
RootOfActive(ts) ==
    LET ids == SetToSeq({t.transferId : t \in ts})
        hashOf(id) == (CHOOSE t \in ts : t.transferId = id).initialStateHash
    IN  MerkleRoot([k \in 1..Len(ids) |-> hashOf(ids[k])])

\* The resolutions of a transfer: one between the participants is completed
\* or cancelled, one to a payee outside the channel is paid out.
ResolversFor(transfer) ==
    IF transfer.initialBalance.to = Participants THEN {"toFirst", "toSecond"}
    ELSE {"paidOut"}

\* chainReader.resolve(transfer, resolver): the balance the transfer
\* definition pays.  A cancelled or completed transfer pays its whole
\* allocation to one slot; a transfer paid out on chain (a withdrawal) pays
\* nothing back into the channel.
Resolve(transfer, resolver) ==
    CASE resolver = "toFirst" -> <<TransferAmount(transfer), 0>>
      [] resolver = "toSecond" -> <<0, TransferAmount(transfer)>>
      [] OTHER -> <<0, 0>>

(***************************************************************************)
(* UpdateGenerator: generateUpdate(params, state, store, chainReader,       *)
(* signer).  chain stands for the two on-chain reads.                       *)
(***************************************************************************)
NoGenerated == [update |-> NoUpdate, transfer |-> NoTransfer]

\* The unsigned update every type starts from.
BaseUpdate(type, state, signer) ==
    [channelAddress |-> state.channelAddress, type |-> type,
     nonce |-> state.nonce + 1,
     fromIdentifier |-> signer, toIdentifier |-> Other(signer),
     assetId |-> AssetId, balance |-> <<0, 0>>, details |-> NoDetails,
     aliceSignature |-> NoSignature, bobSignature |-> NoSignature]

\* Previous balance and locked amount of an asset (zero when it is new).
PrevBalance(state, assetId) ==
    IF AssetIdx(state, assetId) = 0 THEN <<0, 0>>
    ELSE state.balances[AssetIdx(state, assetId)]

PrevLocked(state, assetId) ==
    IF AssetIdx(state, assetId) = 0 THEN 0
    ELSE state.lockedBalance[AssetIdx(state, assetId)]

GenerateSetup(params, state, signer) ==
    Ok([update |-> AddSignature(
                      [BaseUpdate("setup", state, signer) EXCEPT
                          !.nonce = 1,
                          !.details = [NoDetails EXCEPT !.timeout = params.timeout]],
                      signer),
        transfer |-> NoTransfer])

\* A reconciliation that credits alice the latest deposit record whatever its
\* nonce.
ReconcileDepositAgain(state, assetId, chain) ==
    LET prev == PrevBalance(state, assetId)
        newAlice == prev[1] + chain.depositAmount
        bobDelta == chain.balance - (newAlice + PrevLocked(state, assetId) + prev[2])
    IN  <<newAlice, prev[2] + bobDelta>>

\* Reconciled deposit: alice is credited the latest on-chain deposit record
\* when its nonce is new, bob absorbs whatever else the chain holds.
ReconcileDeposit(state, assetId, chain) ==
    LET prev == PrevBalance(state, assetId)
        newAlice == IF chain.depositNonce > state.latestDepositNonce
                    THEN prev[1] + chain.depositAmount
                    ELSE prev[1]
        \* bob's share of the deposit, onchain - (newAlice + prevLocked + prevBob)
        bobDelta == chain.balance - (newAlice + PrevLocked(state, assetId) + prev[2])
    IN  <<newAlice, prev[2] + bobDelta>>

GenerateDeposit(params, state, chain, signer) ==
    LET balance == ReconcileDeposit(state, params.assetId, chain) IN
    IF balance[2] < 0 THEN Fail("CannotGenerate", NoGenerated)
    ELSE Ok([update |-> AddSignature(
                      [BaseUpdate("deposit", state, signer) EXCEPT
                          !.assetId = params.assetId,
                          !.balance = balance,
                          !.details = [NoDetails EXCEPT
                                          !.latestDepositNonce = chain.depositNonce]],
                      signer),
             transfer |-> NoTransfer])

\* A create that debits alice's slot whoever creates.
GenerateCreateDebitsAlice(params, state, activeTransfers, signer) ==
    LET prev == PrevBalance(state, params.assetId)
        s == Slot(signer)
        amount == IF s = 1 THEN <<params.amount, 0>> ELSE <<0, params.amount>>
        transfer == [transferId |-> TransferIdOf(state.nonce, signer),
                     assetId |-> params.assetId,
                     initialBalance |-> [amount |-> amount, to |-> params.to],
                     initialStateHash |-> HashTransferState(amount, params.to)]
    IN
    IF AssetIdx(state, params.assetId) = 0 \/ prev[s] < params.amount
    THEN Fail("CannotGenerate", NoGenerated)
    ELSE Ok([update |-> AddSignature(
                      [BaseUpdate("create", state, signer) EXCEPT
                          !.assetId = params.assetId,
                          !.balance = [prev EXCEPT ![1] = prev[1] - params.amount],
                          !.details = [NoDetails EXCEPT
                              !.transferId = transfer.transferId,
                              !.transferInitialBalance = amount,
                              !.transferTo = params.to,
                              !.merkleRoot =
                                  RootOfActive(activeTransfers \cup {transfer})]],
                      signer),
             transfer |-> transfer])

GenerateCreate(params, state, activeTransfers, signer) ==
    LET prev == PrevBalance(state, params.assetId)
        s == Slot(signer)
        amount == IF s = 1 THEN <<params.amount, 0>> ELSE <<0, params.amount>>
        transfer == [transferId |-> TransferIdOf(state.nonce, signer),
                     assetId |-> params.assetId,
                     initialBalance |-> [amount |-> amount, to |-> params.to],
                     initialStateHash |-> HashTransferState(amount, params.to)]
    IN
    IF AssetIdx(state, params.assetId) = 0 \/ prev[s] < params.amount
    THEN Fail("CannotGenerate", NoGenerated)
    ELSE Ok([update |-> AddSignature(
                      [BaseUpdate("create", state, signer) EXCEPT
                          !.assetId = params.assetId,
                          !.balance = [prev EXCEPT ![s] = prev[s] - params.amount],
                          !.details = [NoDetails EXCEPT
                              !.transferId = transfer.transferId,
                              !.transferInitialBalance = amount,
                              !.transferTo = params.to,
                              !.merkleRoot =
                                  RootOfActive(activeTransfers \cup {transfer})]],
                      signer),
             transfer |-> transfer])

\* A resolve that credits the resolver output only when the transfer's `to`
\* are the channel participants.
GenerateResolveToParticipants(params, state, activeTransfers, signer) ==
    IF ~ \E t \in activeTransfers : t.transferId = params.transferId
    THEN Fail("CannotGenerate", NoGenerated)
    ELSE
    LET transfer == CHOOSE t \in activeTransfers : t.transferId = params.transferId
        prev == PrevBalance(state, transfer.assetId)
        resolved == IF transfer.initialBalance.to = Participants
                    THEN Resolve(transfer, params.transferResolver)
                    ELSE <<0, 0>>
    IN  Ok([update |-> AddSignature(
                      [BaseUpdate("resolve", state, signer) EXCEPT
                          !.assetId = transfer.assetId,
                          !.balance = <<prev[1] + resolved[1], prev[2] + resolved[2]>>,
                          !.details = [NoDetails EXCEPT
                              !.transferId = transfer.transferId,
                              !.transferResolver = params.transferResolver,
                              !.merkleRoot =
                                  RootOfActive(activeTransfers \ {transfer})]],
                      signer),
            transfer |-> transfer])

GenerateResolve(params, state, activeTransfers, signer) ==
    IF ~ \E t \in activeTransfers : t.transferId = params.transferId
    THEN Fail("CannotGenerate", NoGenerated)
    ELSE
    LET transfer == CHOOSE t \in activeTransfers : t.transferId = params.transferId
        prev == PrevBalance(state, transfer.assetId)
        resolved == Resolve(transfer, params.transferResolver)
    IN  Ok([update |-> AddSignature(
                      [BaseUpdate("resolve", state, signer) EXCEPT
                          !.assetId = transfer.assetId,
                          !.balance = <<prev[1] + resolved[1], prev[2] + resolved[2]>>,
                          !.details = [NoDetails EXCEPT
                              !.transferId = transfer.transferId,
                              !.transferResolver = params.transferResolver,
                              !.merkleRoot =
                                  RootOfActive(activeTransfers \ {transfer})]],
                      signer),
            transfer |-> transfer])

generateUpdate(params, state, activeTransfers, chain, signer) ==
    CASE params.type = "setup" -> GenerateSetup(params, state, signer)
      [] params.type = "deposit" -> GenerateDeposit(params, state, chain, signer)
      [] params.type = "create" -> GenerateCreate(params, state, activeTransfers, signer)
      [] params.type = "resolve" -> GenerateResolve(params, state, activeTransfers, signer)
      [] OTHER -> Fail("InvalidParams", NoGenerated)

\* The reads of the chain a call of generateUpdate depends on: a deposit
\* reads the latest deposit record and the on-chain balance, a resolve of a
\* stored transfer invokes the resolver; setup and create read nothing.
ChainReads == {"getLatestDepositByAssetId", "getChannelOnchainBalance", "resolve"}

ReadsOf(params, activeTransfers) ==
    CASE params.type = "deposit" ->
            {"getLatestDepositByAssetId", "getChannelOnchainBalance"}
      [] params.type = "resolve" ->
            IF \E t \in activeTransfers : t.transferId = params.transferId
            THEN {"resolve"} ELSE {}
      [] OTHER -> {}

\* A generateUpdate that goes on with an empty reading when a read fails.
generateUpdateUnread(params, state, activeTransfers, chain, signer, failing) ==
    IF failing \in ReadsOf(params, activeTransfers)
    THEN generateUpdate([params EXCEPT !.transferResolver = "none"], state,
                        activeTransfers,
                        [balance |-> 0, depositNonce |-> 0, depositAmount |-> 0],
                        signer)
    ELSE generateUpdate(params, state, activeTransfers, chain, signer)

\* generateUpdate when the read `failing` of the chain fails: the failure is
\* propagated as ChainServiceFailure by a call that depends on the read.
generateUpdateReading(params, state, activeTransfers, chain, signer, failing) ==
    IF failing \in ReadsOf(params, activeTransfers)
    THEN Fail("ChainServiceFailure", NoGenerated)
    ELSE generateUpdate(params, state, activeTransfers, chain, signer)

(***************************************************************************)
(* UpdateValidator.                                                         *)
(***************************************************************************)
\* sum(balances[asset]) + lockedBalance[asset]
Total(state, assetId) ==
    PrevBalance(state, assetId)[1] + PrevBalance(state, assetId)[2]
        + PrevLocked(state, assetId)

\* The transfer a create update describes, its initialStateHash recomputed.
TransferFromDetails(update) ==
    [transferId |-> update.details.transferId,
     assetId |-> update.assetId,
     initialBalance |-> [amount |-> update.details.transferInitialBalance,
                         to |-> update.details.transferTo],
     initialStateHash |-> HashTransferState(update.details.transferInitialBalance,
                                            update.details.transferTo)]

\* The transfer an update is applied with.
TransferOf(update, activeTransfers) ==
    IF update.type = "create" THEN TransferFromDetails(update)
    ELSE IF update.type = "resolve"
            /\ \E t \in activeTransfers : t.transferId = update.details.transferId
    THEN CHOOSE t \in activeTransfers : t.transferId = update.details.transferId
    ELSE NoTransfer

ValidNonce(update, prev) == update.nonce = prev.nonce + 1

ValidSender(update) ==
    /\ update.fromIdentifier \in Peers
    /\ update.toIdentifier = Other(update.fromIdentifier)
    /\ SignatureValid(update, update.fromIdentifier)

\* A validator that takes the merkle root of the update as it is.
AnyMerkleRoot(update, activeTransfers) == TRUE

ValidMerkleRoot(update, activeTransfers) ==
    CASE update.type = "create" ->
            update.details.merkleRoot =
                RootOfActive(activeTransfers \cup {TransferFromDetails(update)})
      [] update.type = "resolve" ->
            update.details.merkleRoot =
                RootOfActive(activeTransfers \ {TransferOf(update, activeTransfers)})
      [] OTHER -> TRUE

\* The claimed balance is the one the receiver computes itself.  A resolve
\* is held to the resolver's output, which may pay less than the transfer
\* locked (update.spec.ts, resolve with a payee outside the channel); a
\* create may not change sum + locked.
ValidBalance(update, prev, activeTransfers, chain) ==
    LET transfer == TransferOf(update, activeTransfers)
        prevBal == PrevBalance(prev, update.assetId)
    IN
    CASE update.type = "deposit" ->
            /\ update.balance = ReconcileDeposit(prev, update.assetId, chain)
            /\ update.details.latestDepositNonce = chain.depositNonce
            /\ update.balance[2] >= 0
      [] update.type = "create" ->
            /\ update.balance[1] >= 0 /\ update.balance[2] >= 0
            /\ update.balance[1] + update.balance[2] + TransferAmount(transfer)
                  = prevBal[1] + prevBal[2]
      [] update.type = "resolve" ->
            LET resolved == Resolve(transfer, update.details.transferResolver)
            IN  update.balance = <<prevBal[1] + resolved[1], prevBal[2] + resolved[2]>>
      [] OTHER -> update.balance = <<0, 0>>

\* A validator that takes no update for stale.
NeverStale(update, prev) == FALSE

\* nonce <= prev.nonce
StaleNonce(update, prev) == update.nonce <= prev.nonce

\* "ok", "restore" (the update is ahead of the local state) or the error.
validateUpdate(update, prev, activeTransfers, chain) ==
    IF update.type \notin UpdateTypes THEN "BadUpdateType"
    ELSE IF update.channelAddress # prev.channelAddress THEN "InvalidParams"
    ELSE IF StaleNonce(update, prev) THEN "StaleUpdate"
    ELSE IF ~ValidNonce(update, prev) THEN "restore"
    ELSE IF ~ValidSender(update) THEN "InvalidSignature"
    ELSE IF update.type = "resolve" /\ TransferOf(update, activeTransfers) = NoTransfer
    THEN "InvalidParams"
    ELSE IF ~ValidMerkleRoot(update, activeTransfers) THEN "MerkleRootMismatch"
    ELSE IF ~ValidBalance(update, prev, activeTransfers, chain) THEN "BalanceMismatch"
    ELSE IF applyUpdate(update, prev, TransferOf(update, activeTransfers)).isError
    THEN applyUpdate(update, prev, TransferOf(update, activeTransfers)).error
    ELSE "ok"

\* The active transfers after an update.
NextTransfers(update, activeTransfers) ==
    CASE update.type = "create" -> activeTransfers \cup {TransferFromDetails(update)}
      [] update.type = "resolve" ->
            activeTransfers \ {TransferOf(update, activeTransfers)}
      [] OTHER -> activeTransfers

(***************************************************************************)
(* State of the two peers, the network and the chain.                       *)
(***************************************************************************)
VARIABLES
    store,        \* per peer: the persisted channel and its active transfers
    lock,         \* per peer: who holds the channel lock ("free", "update", "restore")
    pending,      \* per peer: the proposal awaiting its countersignature
    restore,      \* per peer: its running restoreState and the peer's answer
    sent,         \* per peer: the update it sent last (the network may delay
                  \* it and deliver it again)
    inbox,        \* per peer: the response to its open request
    chain,        \* on-chain balance and latest deposit record of the asset
    returned,     \* what the last step returned to the local caller of an update
                  \* proposal or of restoreState ("none": no call returned)
    ledger,       \* per peer: deposits reconciled into, and locked funds released
                  \* without credit from, the persisted channel; the transfers
                  \* its updates created and the ids they resolved (history)
    persisted,    \* every channel state a peer has persisted (history)
    base,         \* the nonce of the channel when the run starts
    env,          \* what the environment of the run does besides delaying and
                  \* losing messages: "network" corrupts messages, a peer's
                  \* name loses that peer's store (bob then calls restoreState,
                  \* alice leaves the restore to the next inbound update),
                  \* "channels" has the peers work on a second channel
    otherLock,    \* per peer: who holds the lock of its channel at OtherAddress
    tie,          \* the nonce for which both peers last had a proposal awaiting
                  \* its countersignature at the same time, 0 before (history)
    restoreLocks, \* per peer: its engine's restoreLocks, per channel address the
                  \* value lockService.acquireLock returned (in the runs of the
                  \* protocol the holder "restore" of lock stands for the entry)
    calls         \* the last operation that was invoked on its own, with its
                  \* arguments, and the calls it made to its collaborators
                  \* (lock service, node service, router store), in their order

vars == <<store, lock, pending, restore, sent, inbox, chain,
          returned, ledger, persisted, base, env, otherLock, tie,
          restoreLocks, calls>>

EmptyStore == [channel |-> EmptyChannel, activeTransfers |-> {}]

NoPending ==
    [status |-> "Idle", update |-> NoUpdate, prev |-> EmptyChannel,
     prevTransfers |-> {}]

NoMessage == [kind |-> "none", update |-> NoUpdate, error |-> ""]

NoLedger == [deposited |-> 0, uncredited |-> 0, created |-> {}, resolved |-> {}]

NoTie == 0

\* restoreState of a peer: not running ("idle"), waiting for the peer's answer
\* ("requested"), answered with data or an error ("answered"), or waiting for
\* the answer to its confirmation ("confirming").  history is the answering
\* peer's ledger, carried along for the bookkeeping of the restored state.
NoRestore ==
    [phase |-> "idle", error |-> "", data |-> EmptyStore, history |-> NoLedger]

\* A peer that does not ask for the restore.
NotRequested == NoRestore

\* The restore request is on its way to the peer.
Requested == [NoRestore EXCEPT !.phase = "requested"]

(***************************************************************************)
(* Bookkeeping of a commit.                                                 *)
(***************************************************************************)
\* The ledger after an update took the channel from prev to next.
LedgerAfter(l, update, prev, next, transfer) ==
    CASE update.type = "deposit" ->
            [l EXCEPT !.deposited = l.deposited
                          + Total(next, update.assetId) - Total(prev, update.assetId)]
      [] update.type = "resolve" ->
            [l EXCEPT !.uncredited = l.uncredited + TransferAmount(transfer)
                          - (next.balances[AssetIdx(next, update.assetId)][1]
                             + next.balances[AssetIdx(next, update.assetId)][2]
                             - PrevBalance(prev, update.assetId)[1]
                             - PrevBalance(prev, update.assetId)[2]),
                      !.resolved = l.resolved \cup {update.details.transferId}]
      [] update.type = "create" ->
            [l EXCEPT !.created = l.created \cup {transfer}]
      [] OTHER -> l

\* saveChannelStateAndTransfers after an update: the store, with its history.
Commit(p, update, prev, prevTransfers) ==
    LET transfer == TransferOf(update, prevTransfers)
        next == applyUpdate(update, prev, transfer).value
    IN  /\ store' = [store EXCEPT ![p] =
                        [channel |-> next,
                         activeTransfers |-> NextTransfers(update, prevTransfers)]]
        /\ ledger' = [ledger EXCEPT ![p] =
                        LedgerAfter(ledger[p], update, prev, next, transfer)]
        /\ persisted' = persisted \cup {next}

(***************************************************************************)
(* The proposer (spec 4.5, initiator).                                      *)
(***************************************************************************)
SetupParams ==
    [type |-> "setup", assetId |-> AssetId, amount |-> 0, to |-> Participants,
     transferId |-> 0, transferResolver |-> "none", timeout |-> SetupTimeout]

DepositParams ==
    [type |-> "deposit", assetId |-> AssetId, amount |-> 0, to |-> Participants,
     transferId |-> 0, transferResolver |-> "none", timeout |-> "0"]

NoChain == [balance |-> 0, depositNonce |-> 0, depositAmount |-> 0]

\* The parameters a caller passes from a given local state: the channel is
\* set up once, by the peer that is its alice; a transfer is created by a
\* peer that has the funds.
ParamsFor(p) ==
    (IF p = Participants[1] /\ store[p].channel.nonce = 0 THEN {SetupParams} ELSE {})
    \cup {DepositParams}
    \cup
    {[type |-> "create", assetId |-> AssetId, amount |-> a, to |-> t,
      transferId |-> 0, transferResolver |-> "none", timeout |-> "0"] :
        a \in 1..PrevBalance(store[p].channel, AssetId)[Slot(p)],
        t \in {Participants, ExternalToOf(p)}}
    \cup
    UNION {{[type |-> "resolve", assetId |-> AssetId, amount |-> 0,
              to |-> Participants, transferId |-> t.transferId,
              transferResolver |-> r, timeout |-> "0"] : r \in ResolversFor(t)} :
              t \in store[p].activeTransfers}

\* The nonces a run may add to the channel.
Budget == IF env = "network" THEN MaxUpdates ELSE MaxUpdates - 1

\* A proposal starts when the channel is idle and its lock is free.
CanPropose(p) ==
    /\ lock[p] = "free"
    /\ pending[p].status = "Idle"
    /\ restore[p].phase = "idle"
    /\ store[p].channel.nonce < base + Budget

\* Proposing (a caller that finds the lock held waits): look the channel up
\* (the engine answers ChannelNotFound without one), acquire the lock, read
\* the latest state, generate, validate against the own state, sign and
\* send; a failure releases the lock and sends nothing.
Propose(p, params) ==
    /\ CanPropose(p)
    /\ LET state == store[p].channel
           active == store[p].activeTransfers
           gen == generateUpdate(params, state, active, chain, p)
           verdict == IF params.type # "setup" /\ state.nonce = 0
                      THEN "ChannelNotFound"
                      ELSE IF gen.isError THEN gen.error
                      ELSE validateUpdate(gen.value.update, state, active, chain)
       IN  IF verdict = "ok"
           THEN /\ lock' = [lock EXCEPT ![p] = "update"]
                /\ pending' = [pending EXCEPT ![p] =
                                  [status |-> "AwaitingCountersign",
                                   update |-> gen.value.update,
                                   prev |-> state, prevTransfers |-> active]]
                /\ sent' = [sent EXCEPT ![p] = gen.value.update]
                /\ tie' = IF /\ pending[Other(p)].status = "AwaitingCountersign"
                              /\ pending[Other(p)].update.nonce = gen.value.update.nonce
                           THEN gen.value.update.nonce
                           ELSE tie
                /\ returned' = "none"
           ELSE /\ UNCHANGED <<lock, pending, sent, tie>>
                /\ returned' = verdict
    /\ UNCHANGED <<store, restore, inbox, chain, ledger, persisted, base, env, otherLock,
        restoreLocks, calls>>

ReplyFaults == {"none", "sigMissing", "sigInvalid"}

\* The countersignature of peer q on u, as it arrives.
CorruptCountersignature(u, q, fault) ==
    LET bad == IF fault = "sigMissing" THEN NoSignature
               ELSE SignMessage(Other(q), HashChannelUpdate(u))
    IN  IF fault = "none" THEN u
        ELSE IF q = "alice" THEN [u EXCEPT !.aliceSignature = bad]
        ELSE [u EXCEPT !.bobSignature = bad]

\* The countersigned update comes back: both signatures are validated, then
\* the new state and transfer set are persisted and the lock is released.
ReceiveReply(p, fault) ==
    /\ fault = "none" \/ env = "network"
    /\ pending[p].status = "AwaitingCountersign"
    /\ inbox[p].kind = "reply"
    /\ LET reply == CorruptCountersignature(inbox[p].update, Other(p), fault)
           valid == /\ HashChannelUpdate(reply) = HashChannelUpdate(pending[p].update)
                    /\ BothSignaturesValid(reply)
       IN  IF valid
           THEN /\ Commit(p, reply, pending[p].prev, pending[p].prevTransfers)
                /\ returned' = "ok"
           ELSE /\ UNCHANGED <<store, ledger, persisted>>
                /\ returned' = "InvalidSignature"
    /\ lock' = [lock EXCEPT ![p] = "free"]
    /\ pending' = [pending EXCEPT ![p] = NoPending]
    /\ inbox' = [inbox EXCEPT ![p] = NoMessage]
    /\ sent' = [sent EXCEPT ![p] = NoUpdate]
    /\ UNCHANGED <<restore, chain, base, env, otherLock, tie,
        restoreLocks, calls>>

\* The peer rejected the proposal.
ReceiveError(p) ==
    /\ pending[p].status = "AwaitingCountersign"
    /\ inbox[p].kind = "error"
    /\ lock' = [lock EXCEPT ![p] = "free"]
    /\ pending' = [pending EXCEPT ![p] = NoPending]
    /\ inbox' = [inbox EXCEPT ![p] = NoMessage]
    /\ returned' = inbox[p].error
    /\ sent' = [sent EXCEPT ![p] = NoUpdate]
    /\ UNCHANGED <<store, restore, chain, ledger, persisted, base, env, otherLock, tie,
        restoreLocks, calls>>

\* A timeout that surfaces the error but keeps the lock.
TimeoutHoldingLock(p) ==
    /\ pending[p].status = "AwaitingCountersign"
    /\ pending' = [pending EXCEPT ![p] = NoPending]
    /\ inbox' = [inbox EXCEPT ![p] =
                    IF inbox[p].kind \in {"reply", "error"} THEN NoMessage
                    ELSE inbox[p]]
    /\ returned' = "Timeout"
    /\ UNCHANGED <<store, lock, restore, sent, chain, ledger, persisted, base, env,
                   otherLock, tie,
                   restoreLocks, calls>>

\* No response within the round-trip timeout.
Timeout(p) ==
    /\ pending[p].status = "AwaitingCountersign"
    /\ lock' = [lock EXCEPT ![p] = "free"]
    /\ pending' = [pending EXCEPT ![p] = NoPending]
    /\ inbox' = [inbox EXCEPT ![p] =
                    IF inbox[p].kind \in {"reply", "error"} THEN NoMessage
                    ELSE inbox[p]]
    /\ returned' = "Timeout"
    /\ UNCHANGED <<store, restore, sent, chain, ledger, persisted, base, env, otherLock, tie,
        restoreLocks, calls>>

(***************************************************************************)
(* The responder (spec 4.5) and the tie-break of concurrent proposals.      *)
(***************************************************************************)
InboundFaults ==
    {"none", "sigMissing", "sigInvalid", "badRoot", "badAddress", "badBalance"}

\* The update as it reaches the receiver: untouched, with the sender's
\* signature missing or made by another key, or changed and signed anew by a
\* sender that does not follow the protocol.
Corrupt(u, fault) ==
    LET from == u.fromIdentifier
        bad == IF fault = "sigMissing" THEN NoSignature
               ELSE SignMessage(Other(from), HashChannelUpdate(u))
    IN  CASE fault \in {"sigMissing", "sigInvalid"} ->
                IF from = "alice" THEN [u EXCEPT !.aliceSignature = bad]
                ELSE [u EXCEPT !.bobSignature = bad]
          [] fault = "badRoot" /\ u.type \in {"create", "resolve"} ->
                AddSignature([u EXCEPT !.details.merkleRoot = @ + 1], from)
          [] fault = "badAddress" ->
                AddSignature([u EXCEPT !.channelAddress = OtherAddress], from)
          [] fault = "badBalance" /\ u.type \in {"deposit", "create", "resolve"} ->
                AddSignature([u EXCEPT !.balance[Slot(from)] = @ + 1], from)
          [] OTHER -> u

\* q's own proposal gives way to an inbound one for the same nonce when the
\* sender's publicIdentifier is the smaller.
Yields(q, m) ==
    /\ pending[q].status = "AwaitingCountersign"
    /\ m.nonce = pending[q].update.nonce
    /\ m.fromIdentifier \in Peers
    /\ LexLess(PublicIdentifier(m.fromIdentifier), PublicIdentifier(q))

\* The response as the sender's open request receives it.
Respond(from, u, msg) ==
    IF /\ pending[from].status = "AwaitingCountersign"
       /\ pending[from].update = u
       /\ inbox[from].kind = "none"
    THEN [inbox EXCEPT ![from] = msg]
    ELSE inbox

\* An inbound update is handled under the lock: validated against the local
\* state, then applied, countersigned, answered and persisted.  An update
\* ahead of the local state starts a restore; any other failure is answered
\* with the error and nothing is persisted.  A proposal of q's own that gives
\* way is discarded: its caller is told so ("Discarded").
ReceiveUpdate(q, fault) ==
    /\ fault = "none" \/ env = "network"
    /\ sent[Other(q)] # NoUpdate
    /\ restore[q].phase = "idle"
    /\ LET u == sent[Other(q)]
           m == Corrupt(u, fault)
           from == u.fromIdentifier
           state == store[q].channel
           active == store[q].activeTransfers
           verdict == validateUpdate(m, state, active, chain)
           signed == AddSignature(m, q)
       IN  /\ lock[q] = "free" \/ (verdict = "ok" /\ Yields(q, m))
           /\ returned' = IF verdict = "ok" /\ Yields(q, m) THEN "Discarded" ELSE "none"
           /\ CASE verdict = "ok" ->
                      /\ Commit(q, signed, state, active)
                      /\ inbox' = [Respond(from, u,
                                      [kind |-> "reply", update |-> signed,
                                       error |-> ""])
                                   EXCEPT ![q] = NoMessage]
                      /\ lock' = [lock EXCEPT ![q] = "free"]
                      /\ pending' = [pending EXCEPT ![q] = NoPending]
                      /\ UNCHANGED restore
                [] verdict = "restore" ->
                      /\ restore' = [restore EXCEPT ![q] = Requested]
                      /\ UNCHANGED <<store, ledger, persisted, inbox, lock, pending>>
                [] OTHER ->
                      /\ inbox' = Respond(from, u,
                                     [kind |-> "error", update |-> NoUpdate,
                                      error |-> verdict])
                      /\ UNCHANGED <<store, ledger, persisted, lock, pending, restore>>
    /\ UNCHANGED <<sent, chain, base, env, otherLock, tie,
        restoreLocks, calls>>

(***************************************************************************)
(* Restore (engine restoreState and the restore locks).                     *)
(***************************************************************************)
\* engine.restoreState is called: the restore request goes to the peer.
RestoreState(p) ==
    /\ env = p /\ p = Participants[2]
    /\ restore[p].phase = "idle"
    /\ lock[p] = "free"
    /\ restore' = [restore EXCEPT ![p] = Requested]
    /\ returned' = "none"
    /\ UNCHANGED <<store, lock, pending, sent, inbox, chain, ledger, persisted,
                   base, env, otherLock, tie,
                   restoreLocks, calls>>

\* A restore lock that is taken whoever holds the channel's lock.
acquireRestoreLocksHeld(held) == Ok("restore")

\* acquireRestoreLocks: ok when the lock service grants the lock, an error
\* when acquireLock throws.
acquireRestoreLocks(held) ==
    IF held = "free" THEN Ok("restore")
    ELSE Fail("Failed to acquire restore lock", held)

\* A release that leaves the restore lock with its holder.
releaseRestoreLocksKept(held) == Ok(held)

\* releaseRestoreLocks: the restore lock is given back.
releaseRestoreLocks(held) ==
    IF held = "restore" THEN Ok("free")
    ELSE Fail("Failed to release restore lock", held)

\* The peer serves a restore request: it takes its lock and returns its
\* channel and active transfers; without a channel, or without the lock, it
\* answers with an error.
HandleRestoreRequest(q) ==
    LET p == Other(q)
        acquired == acquireRestoreLocks(lock[q])
        error == IF store[q].channel.nonce = 0 THEN "ChannelNotFound"
                 ELSE IF acquired.isError THEN acquired.error
                 ELSE ""
    IN  /\ restore[p].phase = "requested"
        /\ IF error # ""
           THEN /\ restore' = [restore EXCEPT ![p] =
                                  [restore[p] EXCEPT !.phase = "answered",
                                                     !.error = error]]
                /\ UNCHANGED lock
           ELSE /\ restore' = [restore EXCEPT ![p] =
                                  [restore[p] EXCEPT !.phase = "answered",
                                                     !.data = store[q],
                                                     !.history = ledger[q]]]
                /\ lock' = [lock EXCEPT ![q] = acquired.value]
        /\ returned' = "none"
        /\ UNCHANGED <<store, pending, sent, inbox, chain, ledger, persisted,
                       base, env, otherLock, tie,
                       restoreLocks, calls>>

RestoreFaults == {"none", "badAddress", "badSig", "badRoot"}

\* A transfer the channel never held.
PhantomTransfer ==
    [transferId |-> 0, assetId |-> AssetId,
     initialBalance |-> [amount |-> <<1, 0>>, to |-> Participants],
     initialStateHash |-> HashTransferState(<<1, 0>>, Participants)]

\* The restore data as it reaches the restorer.
CorruptRestore(data, fault) ==
    CASE fault = "badAddress" -> [data EXCEPT !.channel.channelAddress = OtherAddress]
      [] fault = "badSig" ->
            [data EXCEPT !.channel.latestUpdate.bobSignature = NoSignature]
      [] fault = "badRoot" ->
            [data EXCEPT !.activeTransfers =
                IF @ = {} THEN {PhantomTransfer} ELSE {}]
      [] OTHER -> data

\* chainService.getChannelAddress(alice, bob, factory, chainId)
getChannelAddress(alice, bob) ==
    IF <<alice, bob>> = Participants THEN ChannelAddress ELSE OtherAddress

\* restoreState without its check of the signatures on latestUpdate.
VerifyRestoreUnsigned(data, existing, readOk) ==
    IF getChannelAddress(data.channel.participants[1], data.channel.participants[2])
          # data.channel.channelAddress
    THEN "Restore failed: invalid channelAddress"
    ELSE IF RootOfActive(data.activeTransfers) # data.channel.merkleRoot
    THEN "Restore failed: invalid merkleRoot"
    ELSE IF ~readOk
    THEN "Restore failed: could not retrieve existing channel"
    ELSE IF data.channel.nonce - existing <= 1
    THEN "Restore failed: syncable state"
    ELSE "ok"

\* restoreState without its check of the nonce against the stored channel.
VerifyRestoreAnyNonce(data, existing, readOk) ==
    IF getChannelAddress(data.channel.participants[1], data.channel.participants[2])
          # data.channel.channelAddress
    THEN "Restore failed: invalid channelAddress"
    ELSE IF ~BothSignaturesValid(data.channel.latestUpdate)
    THEN "Restore failed: invalid signatures"
    ELSE IF RootOfActive(data.activeTransfers) # data.channel.merkleRoot
    THEN "Restore failed: invalid merkleRoot"
    ELSE IF ~readOk
    THEN "Restore failed: could not retrieve existing channel"
    ELSE "ok"

\* restoreState without its check of the merkle root over the transfers.
VerifyRestoreAnyRoot(data, existing, readOk) ==
    IF getChannelAddress(data.channel.participants[1], data.channel.participants[2])
          # data.channel.channelAddress
    THEN "Restore failed: invalid channelAddress"
    ELSE IF ~BothSignaturesValid(data.channel.latestUpdate)
    THEN "Restore failed: invalid signatures"
    ELSE IF ~readOk
    THEN "Restore failed: could not retrieve existing channel"
    ELSE IF data.channel.nonce - existing <= 1
    THEN "Restore failed: syncable state"
    ELSE "ok"

\* restoreState that refuses only a returned state that is not ahead of the
\* stored one.
VerifyRestoreAhead(data, existing, readOk) ==
    IF getChannelAddress(data.channel.participants[1], data.channel.participants[2])
          # data.channel.channelAddress
    THEN "Restore failed: invalid channelAddress"
    ELSE IF ~BothSignaturesValid(data.channel.latestUpdate)
    THEN "Restore failed: invalid signatures"
    ELSE IF RootOfActive(data.activeTransfers) # data.channel.merkleRoot
    THEN "Restore failed: invalid merkleRoot"
    ELSE IF ~readOk
    THEN "Restore failed: could not retrieve existing channel"
    ELSE IF data.channel.nonce - existing <= 0
    THEN "Restore failed: syncable state"
    ELSE "ok"

\* The checks of restoreState on the returned channel, in the order of the
\* code; existing is the nonce of the stored channel, 0 when there is none.
VerifyRestore(data, existing, readOk) ==
    IF getChannelAddress(data.channel.participants[1], data.channel.participants[2])
          # data.channel.channelAddress
    THEN "Restore failed: invalid channelAddress"
    ELSE IF ~BothSignaturesValid(data.channel.latestUpdate)
    THEN "Restore failed: invalid signatures"
    ELSE IF RootOfActive(data.activeTransfers) # data.channel.merkleRoot
    THEN "Restore failed: invalid merkleRoot"
    ELSE IF ~readOk
    THEN "Restore failed: could not retrieve existing channel"
    ELSE IF data.channel.nonce - existing <= 1
    THEN "Restore failed: syncable state"
    ELSE "ok"

StoreFaults == {"none", "addressFails", "readFails", "saveFails", "confirmFails"}

\* Result.getValue() of an error result throws.
CantGetValue == "Can't getValue() of error result"

\* What a call ends with when it throws instead of returning a Result.
Exceptions == {CantGetValue}

\* A restoreState that sends its confirmation before it saves.
RestoreVerifyConfirmsFirst(p, fault, io) ==
    /\ (fault = "none" /\ io = "none") \/ env = p
    /\ restore[p].phase = "answered"
    /\ restore[p].error = ""
    /\ LET data == CorruptRestore(restore[p].data, fault)
           check == IF io = "addressFails" THEN CantGetValue
                    ELSE VerifyRestore(data, store[p].channel.nonce,
                                       io # "readFails")
       IN  IF check = "ok" /\ io # "confirmFails"
           THEN /\ restore' = [restore EXCEPT ![p] =
                                  [NoRestore EXCEPT !.phase = "confirming"]]
                /\ returned' = "none"
                /\ IF io = "saveFails"
                   THEN UNCHANGED <<store, ledger, persisted>>
                   ELSE /\ store' = [store EXCEPT ![p] = data]
                        /\ ledger' = [ledger EXCEPT ![p] = restore[p].history]
                        /\ persisted' = persisted \cup {data.channel}
           ELSE /\ restore' = [restore EXCEPT ![p] = NoRestore]
                /\ returned' = IF check = "ok" THEN "Timeout" ELSE check
                /\ UNCHANGED <<store, ledger, persisted>>
    /\ UNCHANGED <<lock, pending, sent, inbox, chain, base, env, otherLock, tie,
        restoreLocks, calls>>

\* restoreState after the peer's answer: verify, save, confirm.  No
\* confirmation is sent unless the state was saved.  The derived address is
\* read with getValue() whatever chainService.getChannelAddress returned.
RestoreVerify(p, fault, io) ==
    /\ (fault = "none" /\ io = "none") \/ env = p
    /\ restore[p].phase = "answered"
    /\ restore[p].error = ""
    /\ LET data == CorruptRestore(restore[p].data, fault)
           check == IF io = "addressFails" THEN CantGetValue
                    ELSE VerifyRestore(data, store[p].channel.nonce,
                                       io # "readFails")
           verdict == IF check = "ok" /\ io = "saveFails"
                      THEN "Restore failed: could not save state"
                      ELSE check
       IN  IF verdict = "ok"
           THEN /\ store' = [store EXCEPT ![p] = data]
                /\ ledger' = [ledger EXCEPT ![p] = restore[p].history]
                /\ persisted' = persisted \cup {data.channel}
                /\ restore' = [restore EXCEPT ![p] =
                                  IF io = "confirmFails" THEN NoRestore
                                  ELSE [NoRestore EXCEPT !.phase = "confirming"]]
                /\ returned' = IF io = "confirmFails" THEN "Timeout" ELSE "none"
           ELSE /\ restore' = [restore EXCEPT ![p] = NoRestore]
                /\ returned' = verdict
                /\ UNCHANGED <<store, ledger, persisted>>
    /\ UNCHANGED <<lock, pending, sent, inbox, chain, base, env, otherLock, tie,
        restoreLocks, calls>>

\* The restore request is answered with an error, or not in time.
RestoreFailed(p) ==
    /\ \/ /\ restore[p].phase = "answered" /\ restore[p].error # ""
          /\ returned' = restore[p].error
       \/ /\ restore[p].phase \in {"requested", "answered"}
          /\ returned' = "Timeout"
    /\ restore' = [restore EXCEPT ![p] = NoRestore]
    /\ UNCHANGED <<store, lock, pending, sent, inbox, chain, ledger, persisted,
                   base, env, otherLock, tie,
                   restoreLocks, calls>>

\* The peer receives the confirmation and releases its restore lock; its
\* answer ends the restorer's restoreState, which returns the channel address.
HandleRestoreConfirm(q) ==
    LET released == releaseRestoreLocks(lock[q])
    IN  /\ restore[Other(q)].phase = "confirming"
        /\ restore' = [restore EXCEPT ![Other(q)] = NoRestore]
        /\ lock' = IF released.isError THEN lock
                   ELSE [lock EXCEPT ![q] = released.value]
        /\ returned' = IF released.isError THEN released.error ELSE ChannelAddress
        /\ UNCHANGED <<store, pending, sent, inbox, chain, ledger, persisted,
                       base, env, otherLock, tie,
                       restoreLocks, calls>>

\* A wait for the confirmation that ends without giving the lock back.
RestoreLockKept(q) ==
    /\ lock[q] = "restore"
    /\ ~(restore[Other(q)].phase = "answered" /\ restore[Other(q)].error = "")
    /\ restore[Other(q)].phase # "confirming"
    /\ UNCHANGED vars

\* The peer's wait for the confirmation is cancelled by its timeout (every
\* suspending operation carries one, and cancellation releases the lock):
\* the restore lock is given back once the restorer no longer works on the
\* answer it was given.
RestoreLockTimeout(q) ==
    LET released == releaseRestoreLocks(lock[q])
    IN  /\ lock[q] = "restore"
        /\ ~(restore[Other(q)].phase = "answered" /\ restore[Other(q)].error = "")
        /\ restore[Other(q)].phase # "confirming"
        /\ lock' = IF released.isError THEN lock
                   ELSE [lock EXCEPT ![q] = released.value]
        /\ UNCHANGED <<store, pending, restore, sent, inbox, chain, returned,
                       ledger, persisted, base, env, otherLock, tie,
                       restoreLocks, calls>>

(***************************************************************************)
(* The environment: deposits on chain, loss of a peer's store.              *)
(***************************************************************************)
\* alice's deposits are recorded (nonce and amount); bob's only raise the
\* balance of the channel contract.
ChainDeposit(p, amount) ==
    /\ chain.balance + amount <= MaxOnchain
    /\ chain' = IF p = "alice"
                THEN [balance |-> chain.balance + amount,
                      depositNonce |-> chain.depositNonce + 1,
                      depositAmount |-> amount]
                ELSE [chain EXCEPT !.balance = @ + amount]
    /\ returned' = "none"
    /\ UNCHANGED <<store, lock, pending, restore, sent, inbox, ledger, persisted,
                   base, env, otherLock, tie,
                   restoreLocks, calls>>

\* An idle peer loses its store (a new device) while its peer still has the
\* channel: the case restore is for.
WipeStore(p) ==
    /\ env = p
    /\ lock[p] = "free" /\ restore[p].phase = "idle"
    /\ store[p].channel.nonce > 0
    /\ store[Other(p)].channel.nonce > 0
    /\ store' = [store EXCEPT ![p] = EmptyStore]
    /\ ledger' = [ledger EXCEPT ![p] = NoLedger]
    /\ returned' = "none"
    /\ UNCHANGED <<lock, pending, restore, sent, inbox, chain, persisted, base,
                   env, otherLock, tie,
                   restoreLocks, calls>>

\* Work on the other channel starts when that channel's lock is free.
CanAcquireOther(p) == env = "channels" /\ otherLock[p] = "free"

\* Work on the peer's other channel takes and gives back that channel's lock.
OtherChannelAcquire(p) ==
    /\ CanAcquireOther(p)
    /\ otherLock' = [otherLock EXCEPT ![p] = "update"]
    /\ returned' = "none"
    /\ UNCHANGED <<store, lock, pending, restore, sent, inbox, chain, ledger,
                   persisted, base, env, tie,
                   restoreLocks, calls>>

OtherChannelRelease(p) ==
    /\ otherLock[p] = "update"
    /\ otherLock' = [otherLock EXCEPT ![p] = "free"]
    /\ returned' = "none"
    /\ UNCHANGED <<store, lock, pending, restore, sent, inbox, chain, ledger,
                   persisted, base, env, tie,
                   restoreLocks, calls>>

(***************************************************************************)
(* The engine's request dispatcher.                                         *)
(***************************************************************************)
\* What a call returned, as a Result: a value, or an error.
ResultOf(r) == IF r \in {"ok", ChannelAddress} THEN Ok(r) ELSE Fail(r, r)

\* engine.request: the invoked method's result is unwrapped; an error result
\* is thrown, not returned.
request(res) ==
    IF res.isError THEN [thrown |-> TRUE, value |-> res.error]
    ELSE [thrown |-> FALSE, value |-> res.value]

(***************************************************************************)
(* Initial states: a channel not yet set up, or a channel that was set up   *)
(* and funded by one deposit, both peers in sync.                           *)
(***************************************************************************)
\* The store of both peers after signer's update was exchanged and committed.
After(st, params, ch, signer) ==
    LET gen == generateUpdate(params, st.channel, st.activeTransfers, ch, signer)
        u == AddSignature(gen.value.update, Other(signer))
    IN  [channel |-> applyUpdate(u, st.channel, TransferOf(u, st.activeTransfers)).value,
         activeTransfers |-> NextTransfers(u, st.activeTransfers)]

SetUp == After(EmptyStore, SetupParams, NoChain, "alice")

\* One unit on chain, deposited by alice and recorded as her deposit.  (A
\* deposit of bob's is reconciled in the runs that start without a channel.)
FundedChains ==
    {[balance |-> 1, depositNonce |-> 1, depositAmount |-> 1]}

Funded(ch) == After(SetUp, DepositParams, ch, "alice")

\* No entry of restoreLocks: the value of a key that is not in the object.
Undefined == "undefined"

Addresses == {ChannelAddress, OtherAddress}

\* An entry of calls: the operation that was invoked, with its arguments, and
\* a call it made to a collaborator, with what that answered.
Invoked(fn, arg) == [fn |-> fn, arg |-> arg, outcome |-> "invoked"]

Called(fn, arg, outcome) == [fn |-> fn, arg |-> arg, outcome |-> outcome]

NoRestoreLocks == [p \in Peers |-> [a \in Addresses |-> Undefined]]

Quiet ==
    /\ lock = [p \in Peers |-> "free"]
    /\ pending = [p \in Peers |-> NoPending]
    /\ restore = [p \in Peers |-> NoRestore]
    /\ sent = [p \in Peers |-> NoUpdate]
    /\ inbox = [p \in Peers |-> NoMessage]
    /\ returned = "none"
    /\ otherLock = [p \in Peers |-> "free"]
    /\ tie = NoTie
    /\ restoreLocks = NoRestoreLocks
    /\ calls = <<>>

Init ==
    /\ Quiet
    /\ env \in {"network", "channels"} \cup Peers
    /\ \/ /\ store = [p \in Peers |-> EmptyStore]
          /\ chain = NoChain
          /\ ledger = [p \in Peers |-> NoLedger]
          /\ persisted = {}
          /\ base = 0
       \/ \E ch \in FundedChains :
             /\ store = [p \in Peers |-> Funded(ch)]
             /\ chain = ch
             /\ ledger = [p \in Peers |-> [NoLedger EXCEPT !.deposited = 1]]
             /\ persisted = {SetUp.channel, Funded(ch).channel}
             /\ base = Funded(ch).channel.nonce

Next ==
    \/ \E p \in Peers : \E params \in ParamsFor(p) : Propose(p, params)
    \/ \E p \in Peers : \E fault \in ReplyFaults : ReceiveReply(p, fault)
    \/ \E p \in Peers : ReceiveError(p)
    \/ \E p \in Peers : Timeout(p)
    \/ \E q \in Peers : \E fault \in InboundFaults : ReceiveUpdate(q, fault)
    \/ \E p \in Peers : RestoreState(p)
    \/ \E q \in Peers : HandleRestoreRequest(q)
    \/ \E p \in Peers : \E fault \in RestoreFaults : \E io \in StoreFaults :
          RestoreVerify(p, fault, io)
    \/ \E p \in Peers : RestoreFailed(p)
    \/ \E q \in Peers : HandleRestoreConfirm(q)
    \/ \E q \in Peers : RestoreLockTimeout(q)
    \/ \E p \in Peers : \E amount \in 1..MaxOnchain : ChainDeposit(p, amount)
    \/ \E p \in Peers : WipeStore(p)
    \/ \E p \in Peers : OtherChannelAcquire(p)
    \/ \E p \in Peers : OtherChannelRelease(p)

Spec == Init /\ [][Next]_vars

(***************************************************************************)
(* applyUpdate on its own: previous states, updates and transfers as the    *)
(* applyUpdate tests build them, applied in a row by one caller.  The state *)
(* under test is alice's store; pending keeps the update that was applied   *)
(* last and the state a create was applied to.                              *)
(***************************************************************************)
OtherAssetId == "0xaddee"

Assets == <<AssetId, OtherAssetId>>

TestBalances == {<<0, MaxAmount>>, <<MaxAmount, 0>>}

\* createTestFullLinkedTransferState with the balance and assetId overridden.
TestTransfer(id, assetId, amount, to) ==
    [transferId |-> id, assetId |-> assetId,
     initialBalance |-> [amount |-> amount, to |-> to],
     initialStateHash |-> HashTransferState(amount, to)]

TestTransfers ==
    {TestTransfer(id, Assets[k], amount, to) :
        id \in 1..MaxTransfers, k \in 1..Len(Assets),
        amount \in {<<a, 0>> : a \in 1..MaxAmount} \cup {<<0, a>> : a \in 1..MaxAmount},
        to \in {Participants, ExternalTo}}

RECURSIVE LockedIn(_, _)
\* What a set of active transfers locks of an asset.
LockedIn(ts, assetId) ==
    IF ts = {} THEN 0
    ELSE LET t == CHOOSE x \in ts : TRUE
         IN  (IF t.assetId = assetId THEN TransferAmount(t) ELSE 0)
                + LockedIn(ts \ {t}, assetId)

\* createTestChannelStateWithSigners with overrides: a state with its first
\* n assets, their balances and the active transfers it holds.
TestChannel(address, nonce, n, balances, active) ==
    [EmptyChannel EXCEPT
        !.channelAddress = address,
        !.nonce = nonce,
        !.assetIds = SubSeq(Assets, 1, n),
        !.balances = balances,
        !.lockedBalance = [i \in 1..n |-> LockedIn(active, Assets[i])],
        !.merkleRoot = RootOfActive(active)]

\* The previous states: a channel before its setup, or one that was set up
\* and holds at most one transfer.
TestStores ==
    {[channel |-> TestChannel(address, nonce, n, balances, active),
      activeTransfers |-> active] :
        address \in {ChannelAddress, OtherAddress}, nonce \in {0, 1}, n \in {0},
        balances \in {<<>>}, active \in {{}}}
    \cup
    UNION {{[channel |-> TestChannel(address, 1, n, balances, active),
             activeTransfers |-> active] :
                address \in {ChannelAddress},
                balances \in [1..n -> TestBalances],
                active \in {{}} \cup
                    {{t} : t \in {x \in TestTransfers :
                                    /\ x.transferId = 1
                                    /\ \E i \in 1..n : Assets[i] = x.assetId}}} :
           n \in 1..Len(Assets)}

\* createTestChannelUpdateWithSigners: the updates of each type, each with
\* the transfer it is applied with, for a previous state and its active
\* transfers.
SetupUpdates(state) ==
    {<<[BaseUpdate("setup", state, signer) EXCEPT
            !.details = [NoDetails EXCEPT !.timeout = SetupTimeout]],
       NoTransfer>> : signer \in Peers}

DepositUpdates(state) ==
    {<<[BaseUpdate("deposit", state, signer) EXCEPT
            !.assetId = Assets[k], !.balance = balance,
            !.details = [NoDetails EXCEPT !.latestDepositNonce = depositNonce]],
       NoTransfer>> : signer \in {"alice"}, k \in 1..Len(Assets), balance \in TestBalances,
                      depositNonce \in {1, 2}}

\* The create of transfer t, and the resolve of it.
CreateUpdate(state, active, signer, balance, t) ==
    [BaseUpdate("create", state, signer) EXCEPT
        !.assetId = t.assetId, !.balance = balance,
        !.details = [NoDetails EXCEPT
            !.transferId = t.transferId,
            !.transferInitialBalance = t.initialBalance.amount,
            !.transferTo = t.initialBalance.to,
            !.merkleRoot = RootOfActive(active \cup {t})]]

ResolveUpdate(state, active, signer, balance, t) ==
    [BaseUpdate("resolve", state, signer) EXCEPT
        !.assetId = t.assetId, !.balance = balance,
        !.details = [NoDetails EXCEPT
            !.transferId = t.transferId,
            !.transferResolver = "toFirst",
            !.merkleRoot = RootOfActive(active \ {t})]]

CreateUpdates(state, active) ==
    {<<CreateUpdate(state, active, signer, <<0, MaxAmount>>, t), t>> :
        signer \in Peers,
        t \in {x \in TestTransfers : \A y \in active : y.transferId # x.transferId}}

ResolveUpdates(state, active) ==
    {<<ResolveUpdate(state, active, signer, <<MaxAmount, 0>>, t), t>> :
        signer \in Peers, t \in active \cup {NoTransfer}}

\* An update of a type that is none of the four.
UnknownUpdates(state) == {<<BaseUpdate("fail", state, "alice"), NoTransfer>>}

\* The transfers of the last id that are not active and pay to the
\* participants.
SpareTransfers(active) ==
    {x \in TestTransfers :
        /\ x.transferId = MaxTransfers
        /\ x.initialBalance.to = Participants
        /\ \A y \in active : y.transferId # x.transferId}

\* A create or a resolve that comes without its transfer.
MissingTransferUpdates(state, active) ==
    {<<CreateUpdate(state, active, "alice", <<0, MaxAmount>>, t), NoTransfer>> :
        t \in SpareTransfers(active)}
    \cup
    {<<ResolveUpdate(state, active, "alice", <<MaxAmount, 0>>, t), NoTransfer>> :
        t \in active}

\* A resolve of a transfer that is not active and is worth more than the
\* state has locked for its asset.
UnderflowUpdates(state, active) ==
    {<<ResolveUpdate(state, active, "bob", <<MaxAmount, 0>>, t), t>> :
        t \in {x \in SpareTransfers(active) :
                  /\ AssetIdx(state, x.assetId) # 0
                  /\ state.lockedBalance[AssetIdx(state, x.assetId)]
                       < TransferAmount(x)}}

TestUpdates(state, active) ==
    SetupUpdates(state) \cup DepositUpdates(state) \cup CreateUpdates(state, active)
        \cup ResolveUpdates(state, active) \cup UnknownUpdates(state)
        \cup MissingTransferUpdates(state, active) \cup UnderflowUpdates(state, active)

\* vectorUpdate.applyUpdate(update, previousState, transfer) is called; the
\* caller keeps the resulting state and the transfers that are now active,
\* and stops at the first error.  calls holds the call: its arguments, the
\* transfers that were active, and (last) what the caller had kept of the
\* update applied before it.
ApplyUpdate(update, transfer) ==
    /\ store["alice"].channel.nonce < base + MaxApplied
    /\ returned \in {"none", "ok"}
    /\ calls' = <<Invoked("applyUpdate",
                          [update |-> update, state |-> store["alice"].channel,
                           active |-> store["alice"].activeTransfers,
                           transfer |-> transfer, last |-> pending["alice"]])>>
    /\ LET state == store["alice"].channel
           active == store["alice"].activeTransfers
           result == applyUpdate(update, state, transfer)
       IN  IF result.isError
           THEN /\ returned' = result.error
                /\ UNCHANGED <<store, pending>>
           ELSE /\ returned' = "ok"
                /\ store' = [store EXCEPT !["alice"] =
                      [channel |-> result.value,
                       activeTransfers |->
                          CASE update.type = "create" -> active \cup {transfer}
                            [] update.type = "resolve" -> active \ {transfer}
                            [] OTHER -> active]]
                /\ pending' = [pending EXCEPT !["alice"] =
                      IF update.type = "create"
                      THEN [status |-> "Idle", update |-> update, prev |-> state,
                            prevTransfers |-> active]
                      ELSE [NoPending EXCEPT !.update = update]]
    /\ UNCHANGED <<lock, restore, sent, inbox, chain, ledger, persisted, base, env,
                   otherLock, tie,
                   restoreLocks>>

ApplyInit ==
    /\ Quiet
    /\ env = "network"
    /\ chain = NoChain
    /\ ledger = [p \in Peers |-> NoLedger]
    /\ persisted = {}
    /\ \E st \in TestStores :
          /\ store = [p \in Peers |-> IF p = "alice" THEN st ELSE EmptyStore]
          /\ base = st.channel.nonce

ApplyNext ==
    \E pair \in TestUpdates(store["alice"].channel, store["alice"].activeTransfers) :
        ApplyUpdate(pair[1], pair[2])

ApplySpec == ApplyInit /\ [][ApplyNext]_vars

(***************************************************************************)
(* generateUpdate on its own: states, params and on-chain reads as the      *)
(* generateUpdate tests build them.  The state is alice's store, chain is   *)
(* what the chain service answers, and sent keeps the update a signer was   *)
(* returned.                                                                *)
(***************************************************************************)
TestOnchain == 10

\* chainService.getChannelOnchainBalance and getLatestDepositByAssetId: a
\* deposit record has a nonce and an amount the channel holds on chain.
TestChains ==
    {c \in [balance : (0..MaxChain) \cup {TestOnchain},
            depositNonce : 0..2,
            depositAmount : (0..MaxChain) \cup {TestOnchain}] :
        /\ c.depositNonce = 0 <=> c.depositAmount = 0
        /\ c.depositAmount <= c.balance}

\* createTestUpdateParams: the params of each type.
TestDepositParams == {[DepositParams EXCEPT !.assetId = Assets[k]] : k \in 1..Len(Assets)}

TestCreateParams ==
    {[type |-> "create", assetId |-> Assets[k], amount |-> a, to |-> to,
      transferId |-> 0, transferResolver |-> "none", timeout |-> "0"] :
        k \in 1..Len(Assets), a \in 1..(MaxAmount + 1), to \in {Participants, ExternalTo}}

TestResolveParams ==
    {[type |-> "resolve", assetId |-> AssetId, amount |-> 0, to |-> Participants,
      transferId |-> id, transferResolver |-> r, timeout |-> "0"] :
        id \in 1..MaxTransfers, r \in {"toFirst", "toSecond", "paidOut"}}

TestParams ==
    {SetupParams} \cup TestDepositParams \cup TestCreateParams \cup TestResolveParams
        \cup {[SetupParams EXCEPT !.type = "fail"]}

\* vectorUpdate.generateUpdate(params, state, store, chainService, signer)
\* is called once; the signer keeps the update it is returned.  calls holds
\* the call: its arguments, the transfers of the store and what the chain
\* service holds.
GenerateUpdate(p, params) ==
    /\ returned = "none"
    /\ LET result == generateUpdate(params, store["alice"].channel,
                                    store["alice"].activeTransfers, chain, p)
       IN  IF result.isError
           THEN /\ returned' = result.error
                /\ UNCHANGED sent
           ELSE /\ returned' = "ok"
                /\ sent' = [sent EXCEPT ![p] = result.value.update]
    /\ calls' = <<Invoked("generateUpdate",
                          [params |-> params, signer |-> p, failing |-> "none",
                           state |-> store["alice"].channel,
                           active |-> store["alice"].activeTransfers,
                           chain |-> chain])>>
    /\ UNCHANGED <<store, lock, pending, restore, inbox, chain, ledger, persisted,
                   base, env, otherLock, tie,
                   restoreLocks>>

\* The same call with a chain service whose read `failing` returns an error.
GenerateUpdateChainFailure(p, params, failing) ==
    /\ returned = "none"
    /\ LET result == generateUpdateReading(params, store["alice"].channel,
                                           store["alice"].activeTransfers, chain, p,
                                           failing)
       IN  IF result.isError
           THEN /\ returned' = result.error
                /\ UNCHANGED sent
           ELSE /\ returned' = "ok"
                /\ sent' = [sent EXCEPT ![p] = result.value.update]
    /\ calls' = <<Invoked("generateUpdate",
                          [params |-> params, signer |-> p, failing |-> failing,
                           state |-> store["alice"].channel,
                           active |-> store["alice"].activeTransfers,
                           chain |-> chain])>>
    /\ UNCHANGED <<store, lock, pending, restore, inbox, chain, ledger, persisted,
                   base, env, otherLock, tie,
                   restoreLocks>>

\* The previous states of generateUpdate: the test channels at the channel's
\* address, and channels that hold a second transfer beside the first.
GenerateStores ==
    {x \in TestStores : x.channel.channelAddress = ChannelAddress}
    \cup
    UNION {{[channel |-> TestChannel(ChannelAddress, 2, n, balances, {t, second}),
             activeTransfers |-> {t, second}] :
                balances \in [1..n -> TestBalances],
                t \in {x \in TestTransfers :
                          /\ x.transferId = 1
                          /\ \E i \in 1..n : Assets[i] = x.assetId},
                second \in {TestTransfer(2, AssetId, <<MaxAmount, 0>>, Participants)}} :
           n \in 1..Len(Assets)}

GenerateInit ==
    /\ Quiet
    /\ env = "network"
    /\ ledger = [p \in Peers |-> NoLedger]
    /\ persisted = {}
    /\ \E st \in GenerateStores,
          depositNonce \in {0, 1} :
          /\ depositNonce = 0 \/ st.channel.assetIds # <<>>
          /\ store = [p \in Peers |->
                        IF p = "alice"
                        THEN [st EXCEPT !.channel.latestDepositNonce = depositNonce]
                        ELSE EmptyStore]
          /\ base = st.channel.nonce
          /\ chain \in {c \in TestChains : c.depositNonce >= depositNonce}

GenerateNext ==
    \/ \E p \in Peers, params \in TestParams : GenerateUpdate(p, params)
    \/ \E p \in Peers, params \in TestDepositParams \cup TestResolveParams,
          failing \in ChainReads :
          GenerateUpdateChainFailure(p, params, failing)

GenerateSpec == GenerateInit /\ [][GenerateNext]_vars

(***************************************************************************)
(* Conservation of funds.                                                   *)
(***************************************************************************)
\* In every persisted channel state, sum(balances) + lockedBalance of the
\* asset is what deposit updates reconciled into the channel less what
\* resolved transfers released without crediting a participant.
C1_Balance ==
    \A p \in Peers :
        /\ ledger[p].uncredited >= 0
        /\ Total(store[p].channel, AssetId) = ledger[p].deposited - ledger[p].uncredited

\* A committed update (the nonce goes up by one): setup and create leave
\* sum + locked unchanged, a deposit never lowers it, a resolve never raises it.
C1_Step ==
    \A p \in Peers :
        store'[p].channel.nonce = store[p].channel.nonce + 1 =>
            LET type == store'[p].channel.latestUpdate.type
                before == Total(store[p].channel, AssetId)
                after == Total(store'[p].channel, AssetId)
            IN  /\ type \in {"setup", "create"} => after = before
                /\ type = "deposit" => after >= before
                /\ type = "resolve" => after <= before

Agreed(state) ==
    <<state.balances, state.assetIds, state.lockedBalance, state.merkleRoot,
      state.latestDepositNonce, state.latestUpdate>>

C3_NoPartialCommit ==
    /\ \A s \in persisted :
          /\ SignatureValid(s.latestUpdate, "alice")
          /\ SignatureValid(s.latestUpdate, "bob")
    /\ \A p \in Peers :
          /\ store[p].channel.nonce > 0 => store[p].channel \in persisted
          /\ pending[p].status = "AwaitingCountersign"
                => store[p].channel.latestUpdate # pending[p].update

\* The responder has persisted and answered; the proposer, holding only its
\* own signature so far, has persisted nothing.
C3_Witness ==
    \E p \in Peers :
        /\ pending[p].status = "AwaitingCountersign"
        /\ inbox[p].kind = "reply"
        /\ store[Other(p)].channel.latestUpdate = inbox[p].update
        /\ store[p].channel = pending[p].prev

\* C4: a store changes by losing the channel, by committing an update whose
\* nonce is the persisted nonce + 1 (the setup, and only the setup, at nonce
\* 1), or by a restore to a higher nonce; commits and restores never lower
\* the persisted nonce.
C4_NonceOrder ==
    [][\A p \in Peers :
          store'[p] # store[p] =>
              LET old == store[p].channel
                  new == store'[p].channel
              IN  \/ WipeStore(p)
                  \/ /\ new.nonce = old.nonce + 1
                     /\ new.latestUpdate.nonce = new.nonce
                     /\ (new.latestUpdate.type = "setup") <=> (new.nonce = 1)
                  \/ /\ restore[p].phase = "answered"
                     /\ new = restore[p].data.channel
                     /\ new.nonce > old.nonce + 1]_vars

\* The proposer has committed the last update the run has room for.
C4_Witness ==
    \E p \in Peers :
        /\ returned = "ok"
        /\ store[p].channel.nonce = base + MaxUpdates
        /\ store[p].channel.latestUpdate.fromIdentifier = p

(***************************************************************************)
(* The channel lock.                                                        *)
(***************************************************************************)
\* The proposer holds the lock exactly while its proposal awaits the
\* countersignature, and its store is then the state it generated from.
C5_Held ==
    \A p \in Peers :
        /\ (lock[p] = "update") <=> (pending[p].status = "AwaitingCountersign")
        /\ pending[p].status = "AwaitingCountersign" =>
              store[p] = [channel |-> pending[p].prev,
                          activeTransfers |-> pending[p].prevTransfers]

\* Neither channel's lock stands in the way of work on the other channel:
\* with the other channel's lock held a proposal on this channel can start,
\* and with this channel's lock held work on the other channel can.
C5_Independent ==
    \A p \in Peers :
        /\ (/\ otherLock[p] = "update"
            /\ lock[p] = "free" /\ pending[p].status = "Idle"
            /\ restore[p].phase = "idle"
            /\ store[p].channel.nonce < base + Budget)
              => CanPropose(p)
        /\ (env = "channels" /\ otherLock[p] = "free" /\ lock[p] # "free")
              => CanAcquireOther(p)

\* A held lock is only given back, never taken over; a store changes only
\* by the loss of the store, by a restore while the peer holds its restore
\* lock, or by the one update operation that holds the lock or takes the
\* free lock for the step.
C5_Step ==
    \A p \in Peers :
        /\ (lock[p] # "free" /\ lock'[p] # lock[p]) => lock'[p] = "free"
        /\ store'[p] # store[p] =>
              \/ WipeStore(p)
              \/ /\ restore[p].phase = "answered"
                 /\ lock[p] = "free"
                 /\ lock[Other(p)] = "restore"
              \/ /\ restore[p].phase = "idle"
                 /\ lock[p] \in {"free", "update"}
                 /\ lock'[p] = "free"

FairSpec == Spec /\ \A p \in Peers : WF_vars(Timeout(p))

\* C7: a timeout releases the lock, returns Timeout and leaves the store as
\* it was before the proposal; a lock taken for a proposal is released
\* eventually.
C7_Timeout ==
    /\ [][\A p \in Peers :
            Timeout(p) =>
                /\ lock'[p] = "free"
                /\ returned' = "Timeout"
                /\ store'[p] = [channel |-> pending[p].prev,
                                activeTransfers |-> pending[p].prevTransfers]
                /\ persisted' = persisted]_vars
    /\ \A p \in Peers : (lock[p] = "update") ~> (lock[p] = "free")

\* A proposal has just timed out with nothing persisted of it, although the
\* peer has applied it.
C7_Witness ==
    \E p \in Peers :
        /\ returned = "Timeout"
        /\ lock[p] = "free"
        /\ sent[p] # NoUpdate
        /\ store[p].channel.nonce < sent[p].nonce
        /\ HashChannelUpdate(store[Other(p)].channel.latestUpdate)
              = HashChannelUpdate(sent[p])

\* C8: an inbound update for the channel whose nonce is above the persisted
\* nonce + 1 is not applied and not answered with an error; the receiver
\* asks its peer for a restore.
C8_NonceAhead ==
    [][\A q \in Peers : \A fault \in InboundFaults :
          LET m == Corrupt(sent[Other(q)], fault)
          IN  (/\ m.type \in UpdateTypes
               /\ m.channelAddress = store[q].channel.channelAddress
               /\ m.nonce > store[q].channel.nonce + 1
               /\ ReceiveUpdate(q, fault))
                  => /\ restore'[q].phase = "requested"
                     /\ returned' = "none"
                     /\ UNCHANGED <<store, persisted, ledger, inbox, lock, pending>>]_vars

\* alice, who never calls restoreState herself, has asked for a restore on
\* an update that is ahead of her store.
C8_Witness ==
    /\ env = "alice"
    /\ restore["alice"].phase = "requested"
    /\ sent["bob"].nonce > store["alice"].channel.nonce + 1

\* The response to a rejected update.
ErrorResponse(e) == [kind |-> "error", update |-> NoUpdate, error |-> e]

\* C9: an inbound update for the channel whose nonce is not above the
\* persisted nonce is answered with StaleUpdate and changes nothing; an
\* update that was applied is not applied again.
C9_Stale ==
    [][\A q \in Peers : \A fault \in InboundFaults :
          LET u == sent[Other(q)]
              m == Corrupt(u, fault)
          IN  (/\ m.type \in UpdateTypes
               /\ m.channelAddress = store[q].channel.channelAddress
               /\ m.nonce <= store[q].channel.nonce
               /\ ReceiveUpdate(q, fault))
                  => /\ inbox' = Respond(u.fromIdentifier, u, ErrorResponse("StaleUpdate"))
                     /\ UNCHANGED <<store, persisted, ledger, lock, pending, restore>>]_vars

\* The update the peer has applied came again and was answered StaleUpdate.
C9_Witness ==
    \E p \in Peers :
        /\ pending[p].status = "AwaitingCountersign"
        /\ inbox[p] = ErrorResponse("StaleUpdate")
        /\ HashChannelUpdate(store[Other(p)].channel.latestUpdate)
              = HashChannelUpdate(pending[p].update)

\* The error that answers an update whose only defect is the given one.
ErrorOf(fault) ==
    CASE fault \in {"sigMissing", "sigInvalid"} -> "InvalidSignature"
      [] fault = "badRoot" -> "MerkleRootMismatch"
      [] fault = "badBalance" -> "BalanceMismatch"
      [] OTHER -> "InvalidParams"

\* Sum of a balance.
Sum(balance) == balance[1] + balance[2]

\* The defect of an inbound update m that q checks against its state: the
\* signature of the sender does not verify, the merkle root is not the root
\* over the transfers after m, the channelAddress is another channel's, or
\* the claimed balance does not add up to what the chain (deposit), the
\* previous balance (create) or the resolver (resolve) accounts for.
Defective(m, q, fault) ==
    LET state == store[q].channel
        active == store[q].activeTransfers
        transfer == TransferOf(m, active)
    IN  CASE fault \in {"sigMissing", "sigInvalid"} ->
                m.fromIdentifier \in Peers /\ ~SignatureValid(m, m.fromIdentifier)
          [] fault = "badRoot" ->
                /\ m.type \in {"create", "resolve"}
                /\ m.details.merkleRoot # RootOfActive(NextTransfers(m, active))
          [] fault = "badAddress" -> m.channelAddress # state.channelAddress
          [] fault = "badBalance" ->
                CASE m.type = "deposit" ->
                        Sum(m.balance) + PrevLocked(state, m.assetId) # chain.balance
                  [] m.type = "create" ->
                        Sum(m.balance) + TransferAmount(transfer)
                            # Sum(PrevBalance(state, m.assetId))
                  [] m.type = "resolve" ->
                        Sum(m.balance) # Sum(PrevBalance(state, m.assetId))
                            + Sum(Resolve(transfer, m.details.transferResolver))
                  [] OTHER -> FALSE
          [] OTHER -> FALSE

\* C10: an inbound update with a missing or invalid signature of its
\* sender, a wrong merkle root, another channelAddress or an unjustified
\* balance is not persisted and not countersigned, and nothing is sent on
\* account of it; when that is its only defect it is answered with the
\* error.  A countersigned update with a missing or invalid countersignature
\* is not persisted either: the proposal returns InvalidSignature.
C10_Rejected ==
    [][/\ \A q \in Peers : \A fault \in InboundFaults \ {"none"} :
            LET u == sent[Other(q)]
                m == Corrupt(u, fault)
            IN  (Defective(m, q, fault) /\ ReceiveUpdate(q, fault))
                  => /\ UNCHANGED <<store, persisted, ledger, sent, pending, lock>>
                     /\ \A p \in Peers : inbox'[p].kind = "reply" => inbox'[p] = inbox[p]
                     /\ validateUpdate(u, store[q].channel, store[q].activeTransfers,
                                       chain) = "ok"
                          => inbox' = Respond(u.fromIdentifier, u,
                                              ErrorResponse(ErrorOf(fault)))
       /\ \A p \in Peers : \A fault \in ReplyFaults \ {"none"} :
            ReceiveReply(p, fault)
                  => /\ returned' = "InvalidSignature"
                     /\ pending'[p] = NoPending
                     /\ UNCHANGED <<store, persisted, ledger>>]_vars

\* A proposal was answered with the error of the validator; the peer that
\* rejected it has not moved.
C10_Witness ==
    \E p \in Peers :
        /\ pending[p].status = "AwaitingCountersign"
        /\ inbox[p].kind = "error"
        /\ inbox[p].error \in {"InvalidSignature", "MerkleRootMismatch", "BalanceMismatch"}
        /\ store[Other(p)].channel = pending[p].prev

(***************************************************************************)
(* Restore.                                                                 *)
(***************************************************************************)
\* What a call ends with when it fails: an error, returned or thrown.
EndsWithError(r) == r \notin {"none", "ok", ChannelAddress}

\* The four checks on the data as it reached the restorer whose stored nonce
\* is local: derived address, both signatures, merkle root, nonce.
RestoreChecks(data, local) ==
    /\ data.channel.channelAddress =
          getChannelAddress(data.channel.participants[1], data.channel.participants[2])
    /\ SignatureValid(data.channel.latestUpdate, "alice")
    /\ SignatureValid(data.channel.latestUpdate, "bob")
    /\ data.channel.merkleRoot = RootOfActive(data.activeTransfers)
    /\ data.channel.nonce > local + 1

\* C11: restoreState saves the state the peer returned only if the address
\* could be derived and equals the returned channelAddress, both signatures
\* on latestUpdate verify, the root over the returned transfers equals
\* merkleRoot and the returned nonce is above the local nonce + 1; if any of
\* the checks fails the call ends with an error, nothing is saved and no
\* confirmation is sent.
C11_RestoreGated ==
    [][\A p \in Peers : \A fault \in RestoreFaults : \A io \in StoreFaults :
          RestoreVerify(p, fault, io) =>
              LET data == CorruptRestore(restore[p].data, fault)
                  passed == /\ io # "addressFails"
                            /\ RestoreChecks(data, store[p].channel.nonce)
              IN  /\ (\/ store'[p] # store[p]
                      \/ persisted' # persisted
                      \/ restore'[p].phase = "confirming")
                        => /\ passed
                           /\ store'[p] = data
                  /\ ~passed =>
                        /\ EndsWithError(returned')
                        /\ restore'[p].phase = "idle"
                        /\ UNCHANGED <<store, persisted, ledger>>]_vars

\* A restore was refused for its merkle root: the restorer is still two or
\* more nonces behind the peer, which holds its restore lock.
C11_Witness ==
    \E p \in Peers :
        /\ returned = "Restore failed: invalid merkleRoot"
        /\ restore[p].phase = "idle"
        /\ lock[Other(p)] = "restore"
        /\ store[p].channel.nonce + 1 < store[Other(p)].channel.nonce

\* The peer of a restorer that has the peer's answer, or has saved it and
\* awaits the answer to its confirmation, holds its restore lock; the answer
\* is still the peer's persisted state, and so is the state the restorer saved.
C12_UnderLock ==
    \A p \in Peers :
        /\ (restore[p].phase = "answered" /\ restore[p].error = "")
              => lock[Other(p)] = "restore" /\ restore[p].data = store[Other(p)]
        /\ restore[p].phase = "confirming"
              => lock[Other(p)] = "restore" /\ store[p] = store[Other(p)]

\* The restore lock is taken by the step that answers the request with the
\* peer's state; while it is held the peer's store does not change; it is
\* released by the confirmation, and then the restorer's store equals the
\* peer's, or by the timeout of the peer's wait once the restorer gave the
\* restore up.
C12_Step ==
    \A q \in Peers :
        /\ (lock[q] # "restore" /\ lock'[q] = "restore")
              => /\ HandleRestoreRequest(q)
                 /\ restore'[Other(q)].data = store[q]
        /\ lock[q] = "restore"
              => /\ store'[q] = store[q]
                 /\ lock'[q] # "restore"
                       => \/ /\ HandleRestoreConfirm(q)
                             /\ lock'[q] = "free"
                             /\ store[Other(q)] = store[q]
                          \/ /\ RestoreLockTimeout(q)
                             /\ lock'[q] = "free"
                             /\ restore[Other(q)].phase \notin {"answered", "confirming"}
                                   \/ restore[Other(q)].error # ""
        /\ HandleRestoreConfirm(q) => lock'[q] = "free"

RestoreAborts(p) ==
    /\ restore[p].phase # "idle"
    /\ restore'[p].phase = "idle"
    /\ EndsWithError(returned')

\* C13 as stated: whenever restoreState ends with an error, the failure of
\* the confirmation included, the restorer's channel state and active
\* transfers are what they were.
C13_AsStated ==
    [][\A p \in Peers : RestoreAborts(p) => store'[p] = store[p]]_vars

\* C13: from the call of restoreState to its end the restorer's store changes
\* only by the save of the verified state the peer returned; when
\* restoreState ends with an error the store is unchanged, unless the error
\* is that of the confirmation message, sent after the save: the saved state
\* then stays.
C13_AbortedRestore ==
    [][\A p \in Peers : restore[p].phase # "idle" =>
          /\ store'[p] # store[p] =>
                \E fault \in RestoreFaults : \E io \in {"none", "confirmFails"} :
                    /\ RestoreVerify(p, fault, io)
                    /\ store'[p] = CorruptRestore(restore[p].data, fault)
                    /\ RestoreChecks(store'[p], store[p].channel.nonce)
          /\ (RestoreAborts(p) /\ store'[p] # store[p]) =>
                \E fault \in RestoreFaults : RestoreVerify(p, fault, "confirmFails")
          /\ RestoreFailed(p) => store'[p] = store[p]]_vars

\* alice, who had lost her store, has saved bob's state and restoreState
\* ended with the error of the confirmation: bob still holds his restore lock.
C13_Witness ==
    /\ env = "alice"
    /\ returned = "Timeout"
    /\ restore["alice"].phase = "idle" /\ pending["alice"].status = "Idle"
    /\ lock["bob"] = "restore"
    /\ store["alice"] = store["bob"]

(***************************************************************************)
(* Results, not exceptions.                                                 *)
(***************************************************************************)
\* C14: no call ends with a thrown exception: restoreState returns a Result
\* whatever chainService.getChannelAddress returned, and the request
\* dispatcher hands the invoked method's error to its caller as a result.
C14_NoException ==
    /\ returned \notin Exceptions
    /\ returned # "none" => ~request(ResultOf(returned)).thrown

(***************************************************************************)
(* The merkle root of the active transfers.                                 *)
(***************************************************************************)
\* The transfers the updates of p's channel created and have not resolved.
CreatedUnresolved(p) ==
    {t \in ledger[p].created : t.transferId \notin ledger[p].resolved}

\* C15: the persisted channel state of each peer, after any sequence of
\* updates and restores, has for its merkleRoot the root over the transfers
\* that were created and not yet resolved on the channel, which are the
\* stored active transfers; the root is the zero hash when there is none.
C15_MerkleRoot ==
    \A p \in Peers :
        /\ store[p].activeTransfers = CreatedUnresolved(p)
        /\ store[p].channel.merkleRoot = RootOfActive(CreatedUnresolved(p))
        /\ CreatedUnresolved(p) = {} => store[p].channel.merkleRoot = ZeroHash

\* A peer has persisted the resolve of the one transfer its channel held.
C15_Witness ==
    \E p \in Peers :
        /\ store[p].channel.latestUpdate.type = "resolve"
        /\ ledger[p].created # {}
        /\ store[p].activeTransfers = {}
        /\ store[p].channel.merkleRoot = ZeroHash


\* Every order in which a set of transfers can be supplied.
Orders(ts) ==
    {f \in [1..Cardinality(ts) -> ts] : \A j, k \in DOMAIN f : f[j] = f[k] => j = k}

HashesIn(order) == [k \in DOMAIN order |-> order[k].initialStateHash]

\* C16: the generated merkle root is the same for every order in which the
\* active transfers are supplied, so it is the root any holder of the same
\* set computes.
C16_OrderIndependent ==
    LET ts == store["alice"].activeTransfers
    IN  \A f, g \in Orders(ts) :
            /\ MerkleRoot(HashesIn(f)) = MerkleRoot(HashesIn(g))
            /\ MerkleRoot(HashesIn(f)) = RootOfActive(ts)

C16_Witness ==
    LET ts == store["alice"].activeTransfers
    IN  /\ Cardinality(ts) = 3
        /\ Cardinality({t.initialStateHash : t \in ts}) = 3
        /\ store["alice"].channel.merkleRoot = RootOfActive(ts)
        /\ returned = "ok"

\* applyUpdate was called, and calls[1].arg holds what it was called with:
\* the update, the previous state with its active transfers, the transfer.
Applied == calls # <<>> /\ calls[1].fn = "applyUpdate"

\* The store is the one the call was made on.
StateKept ==
    store = [p \in Peers |->
                IF p = "alice"
                THEN [channel |-> calls[1].arg.state,
                      activeTransfers |-> calls[1].arg.active]
                ELSE EmptyStore]

\* C17: whenever applyUpdate succeeds for a previous state, an update of one
\* of the four types and a transfer, the resulting state has the previous
\* nonce plus one and the applied update as its latestUpdate.
C17_NonceAndLatest ==
    (Applied /\ (returned = "ok" \/ ~StateKept))
        => LET update == calls[1].arg.update
               state == calls[1].arg.state
           IN  /\ returned = "ok"
               /\ update.type \in UpdateTypes
               /\ pending["alice"].update = update
               /\ ~applyUpdate(update, state,
                               TransferOf(update, calls[1].arg.active)).isError
               /\ store["alice"].channel.nonce = state.nonce + 1
               /\ store["alice"].channel.latestUpdate = update

C17_Witness ==
    /\ returned = "ok"
    /\ store["alice"].channel.nonce = base + MaxApplied
    /\ store["alice"].channel.latestUpdate.type = "deposit"
    /\ store["alice"].channel.latestUpdate.nonce = store["alice"].channel.nonce

\* The resolve of a transfer was applied to the state that the create of
\* the transfer, applied just before it, had resulted in.
ResolvesCreated ==
    /\ Applied
    /\ returned = "ok"
    /\ store["alice"].channel.nonce = calls[1].arg.state.nonce + 1
    /\ calls[1].arg.update.type = "resolve"
    /\ calls[1].arg.state.latestUpdate.type = "create"
    /\ calls[1].arg.last.update = calls[1].arg.state.latestUpdate
    /\ calls[1].arg.last.update.details.transferId
          = calls[1].arg.update.details.transferId

\* C18: a create followed by the resolve of the same transfer leaves the
\* locked balance of the transfer's asset as it was before the create,
\* whoever signs either update and wherever the transfer pays to.
C18_CreateResolve ==
    ResolvesCreated
        => LET create == calls[1].arg.last.update
               s == calls[1].arg.last.prev
               i == AssetIdx(s, create.assetId)
           IN  /\ i # 0
               /\ calls[1].arg.state.lockedBalance[i]
                    = s.lockedBalance[i] + TransferAmount(TransferFromDetails(create))
               /\ store["alice"].channel.lockedBalance[i] = s.lockedBalance[i]

C18_Witness ==
    /\ returned = "ok"
    /\ store["alice"].channel.nonce = base + 2
    /\ store["alice"].channel.latestUpdate.type = "resolve"
    /\ store["alice"].channel.latestUpdate.details.transferId = 2
    /\ store["alice"].channel.latestUpdate.fromIdentifier = "bob"
    /\ store["alice"].channel.lockedBalance = <<0, MaxAmount>>

\* The three arrays have one entry per asset, and entry i of each belongs to
\* assetIds[i].
ParallelArrays(state, active) ==
    /\ Len(state.balances) = Len(state.assetIds)
    /\ Len(state.lockedBalance) = Len(state.assetIds)
    /\ \A i, j \in DOMAIN state.assetIds : state.assetIds[i] = state.assetIds[j] => i = j
    /\ \A i \in DOMAIN state.assetIds :
          state.lockedBalance[i] = LockedIn(active, state.assetIds[i])

\* What an applied update does to the arrays.
ArraysStep ==
    LET state == calls[1].arg.state
        next == store["alice"].channel
        update == calls[1].arg.update
        i == AssetIdx(state, update.assetId)
    IN  next.nonce = state.nonce + 1 =>
            IF update.type = "deposit" /\ i = 0
            THEN /\ next.assetIds = Append(state.assetIds, update.assetId)
                 /\ next.balances = Append(state.balances, update.balance)
                 /\ next.lockedBalance = Append(state.lockedBalance, 0)
            ELSE /\ next.assetIds = state.assetIds
                 /\ update.type # "setup" =>
                      /\ \A k \in DOMAIN state.assetIds :
                            k # i => /\ next.balances[k] = state.balances[k]
                                     /\ next.lockedBalance[k] = state.lockedBalance[k]
                      /\ next.balances[i] = update.balance

Identity(state) ==
    <<state.channelAddress, state.participants, state.publicIdentifiers,
      state.networkContext>>

\* C20: applyUpdate copies channelAddress, participants, publicIdentifiers
\* and networkContext from the previous state, whatever the type of the
\* update; an update that fails changes nothing at all.
C20_IdentityKept ==
    Applied => /\ Identity(store["alice"].channel) = Identity(calls[1].arg.state)
               /\ returned # "ok" => StateKept

C20_Witness ==
    /\ returned = "ok"
    /\ base = 0
    /\ store["alice"].channel.nonce = 2
    /\ store["alice"].channel.latestUpdate.type = "deposit"
    /\ store["alice"].channel.channelAddress = OtherAddress
    /\ store["alice"].channel.participants = Participants

\* C21: an update whose type is none of setup, deposit, create and resolve
\* is answered with the error BadUpdateType, whatever transfer comes with
\* it, and the state stays as it was.
C21_BadUpdateType ==
    /\ \A pair \in UnknownUpdates(store["alice"].channel) :
          /\ pair[1].type \notin UpdateTypes
          /\ \A t \in store["alice"].activeTransfers \cup {pair[2]} :
                applyUpdate(pair[1], store["alice"].channel, t)
                    = Fail("BadUpdateType", store["alice"].channel)
    /\ (Applied /\ calls[1].arg.update.type \notin UpdateTypes)
          => /\ returned = "BadUpdateType"
             /\ StateKept

C21_Witness ==
    /\ returned = "BadUpdateType"
    /\ store["alice"].channel.nonce = base + 1
    /\ store["alice"].channel.latestUpdate.type = "create"

\* C22: a setup is applied only to a previous state of nonce 0, and then
\* gives nonce 1, the timeout of the update, no assets, no balances, nothing
\* locked, deposit nonce 0 and the zero merkle root; on any other previous
\* state it is refused and the state stays as it was.
C22_Setup ==
    /\ \A pair \in SetupUpdates(store["alice"].channel) :
          applyUpdate(pair[1], store["alice"].channel, pair[2]).isError
              <=> store["alice"].channel.nonce # 0
    /\ (Applied /\ calls[1].arg.update.type = "setup") =>
          LET state == calls[1].arg.state
              next == store["alice"].channel
          IN  IF state.nonce = 0
              THEN /\ returned = "ok"
                   /\ next.nonce = 1
                   /\ next.timeout = calls[1].arg.update.details.timeout
                   /\ next.balances = <<>>
                   /\ next.assetIds = <<>>
                   /\ next.lockedBalance = <<>>
                   /\ next.latestDepositNonce = 0
                   /\ next.merkleRoot = ZeroHash
              ELSE /\ returned = "ApplyUpdateFailed"
                   /\ StateKept

C22_Witness ==
    /\ returned = "ok"
    /\ base = 0
    /\ store["alice"].channel.nonce = 1
    /\ store["alice"].channel.latestUpdate.type = "setup"
    /\ store["alice"].channel.timeout = SetupTimeout
    /\ store["alice"].channel.assetIds = <<>>

\* The entries of every asset but the one at index i are as they were.
OthersKept(state, next, i) ==
    \A k \in DOMAIN state.assetIds :
        k # i => /\ next.assetIds[k] = state.assetIds[k]
                 /\ next.balances[k] = state.balances[k]
                 /\ next.lockedBalance[k] = state.lockedBalance[k]

\* C23: a deposit of an asset the state has at index i puts the update's
\* balance at balances[i] and no array grows; a deposit of a new asset
\* appends the asset and the update's balance at the end.  Either way
\* latestDepositNonce becomes that of the update, and the entries of the
\* other assets and the merkle root stay as they were.
C23_Deposit ==
    (Applied /\ calls[1].arg.update.type = "deposit") =>
        LET update == calls[1].arg.update
            state == calls[1].arg.state
            next == store["alice"].channel
            i == AssetIdx(state, update.assetId)
        IN  /\ returned = "ok"
            /\ IF i # 0
               THEN /\ next.assetIds = state.assetIds
                    /\ Len(next.balances) = Len(state.balances)
                    /\ next.lockedBalance = state.lockedBalance
                    /\ next.balances[i] = update.balance
               ELSE /\ next.assetIds = Append(state.assetIds, update.assetId)
                    /\ next.balances = Append(state.balances, update.balance)
            /\ next.latestDepositNonce = update.details.latestDepositNonce
            /\ OthersKept(state, next, i)
            /\ next.merkleRoot = state.merkleRoot

C23_Witness ==
    /\ returned = "ok"
    /\ store["alice"].channel.latestUpdate.type = "deposit"
    /\ store["alice"].channel.latestUpdate.assetId = AssetId
    /\ store["alice"].channel.assetIds = <<OtherAssetId, AssetId>>
    /\ store["alice"].channel.balances[2] = store["alice"].channel.latestUpdate.balance
    /\ store["alice"].channel.latestDepositNonce = 2
    /\ store["alice"].channel.nonce = base + 2

\* C24: a create on the asset at index i adds both amounts of the transfer's
\* initial balance to lockedBalance[i], wherever the transfer pays to, puts
\* the update's balance at balances[i] and takes the merkle root of the
\* update; the entries of the other assets stay as they were.
C24_Create ==
    (Applied /\ calls[1].arg.update.type = "create" /\ returned = "ok") =>
        LET state == calls[1].arg.state
            next == store["alice"].channel
            update == calls[1].arg.update
            transfer == TransferFromDetails(update)
            i == AssetIdx(state, update.assetId)
        IN  /\ calls[1].arg.transfer = transfer
            /\ i # 0
            /\ next.lockedBalance[i]
                 = state.lockedBalance[i] + transfer.initialBalance.amount[1]
                                          + transfer.initialBalance.amount[2]
            /\ next.balances[i] = update.balance
            /\ next.merkleRoot = update.details.merkleRoot
            /\ next.assetIds = state.assetIds
            /\ Len(next.balances) = Len(state.balances)
            /\ Len(next.lockedBalance) = Len(state.lockedBalance)
            /\ OthersKept(state, next, i)

C24_Witness ==
    /\ returned = "ok"
    /\ store["alice"].channel.latestUpdate.type = "create"
    /\ store["alice"].channel.latestUpdate.assetId = OtherAssetId
    /\ store["alice"].channel.latestUpdate.details.transferTo = ExternalTo
    /\ store["alice"].channel.latestUpdate.details.transferInitialBalance = <<0, MaxAmount>>
    /\ store["alice"].channel.lockedBalance = <<MaxAmount, MaxAmount>>
    /\ store["alice"].channel.merkleRoot # ZeroHash

\* C25: a resolve on the asset at index i takes both amounts of the
\* transfer's initial balance off lockedBalance[i], puts the update's balance
\* at balances[i] and takes the merkle root of the update, the zero hash
\* when no transfer stays active; the entries of the other assets stay as
\* they were.
C25_Resolve ==
    (Applied /\ calls[1].arg.update.type = "resolve" /\ returned = "ok") =>
        LET state == calls[1].arg.state
            active == calls[1].arg.active
            next == store["alice"].channel
            update == calls[1].arg.update
            transfer == calls[1].arg.transfer
            i == AssetIdx(state, update.assetId)
        IN  /\ i # 0
            /\ transfer \in active
            /\ transfer = TransferOf(update, active)
            /\ store["alice"].activeTransfers = active \ {transfer}
            /\ next.lockedBalance[i]
                 = state.lockedBalance[i] - (transfer.initialBalance.amount[1]
                                             + transfer.initialBalance.amount[2])
            /\ next.balances[i] = update.balance
            /\ next.merkleRoot = update.details.merkleRoot
            /\ store["alice"].activeTransfers = {} => next.merkleRoot = ZeroHash
            /\ next.assetIds = state.assetIds
            /\ Len(next.balances) = Len(state.balances)
            /\ Len(next.lockedBalance) = Len(state.lockedBalance)
            /\ OthersKept(state, next, i)

C25_Witness ==
    /\ returned = "ok"
    /\ store["alice"].channel.latestUpdate.type = "resolve"
    /\ store["alice"].channel.latestUpdate.details.transferId = 1
    /\ store["alice"].channel.latestUpdate.assetId = AssetId
    /\ Cardinality(store["alice"].activeTransfers) = 1
    /\ store["alice"].channel.lockedBalance = <<0, MaxAmount>>
    /\ store["alice"].channel.merkleRoot # ZeroHash

\* C26: a create or a resolve that comes without a transfer, and a resolve
\* that would take more off lockedBalance[i] than is locked, are answered
\* with ApplyUpdateFailed and leave the state as it was; no state has a
\* negative lockedBalance entry.
C26_ApplyUpdateFailed ==
    /\ \A i \in DOMAIN store["alice"].channel.lockedBalance :
          store["alice"].channel.lockedBalance[i] >= 0
    /\ \A pair \in MissingTransferUpdates(store["alice"].channel,
                                          store["alice"].activeTransfers)
                    \cup UnderflowUpdates(store["alice"].channel,
                                          store["alice"].activeTransfers) :
          /\ pair[1].type \in {"create", "resolve"}
          /\ applyUpdate(pair[1], store["alice"].channel, pair[2])
                = Fail("ApplyUpdateFailed", store["alice"].channel)
    /\ (Applied /\ returned = "ApplyUpdateFailed") => StateKept

C26_Witness ==
    /\ returned = "ApplyUpdateFailed"
    /\ store["alice"].channel.latestUpdate.type = "resolve"
    /\ store["alice"].channel.nonce = base + 1
    /\ store["alice"].channel.lockedBalance = <<0, 0>>
    /\ UnderflowUpdates(store["alice"].channel, store["alice"].activeTransfers) # {}
    /\ MissingTransferUpdates(store["alice"].channel, store["alice"].activeTransfers) # {}

\* generateUpdate was called, with all reads of the chain working; the
\* state and the chain the call read are those of the store and of chain,
\* which it leaves as they are.
Generated ==
    /\ calls # <<>>
    /\ calls[1].fn = "generateUpdate"
    /\ calls[1].arg.failing = "none"

\* The update u carries the signature of p in p's slot and nothing in the
\* other slot, and goes from p to the counterparty.
SignedBy(u, p) ==
    /\ SignatureValid(u, p)
    /\ (IF p = Participants[1] THEN u.bobSignature ELSE u.aliceSignature) = NoSignature
    /\ (IF p = Participants[1] THEN u.aliceSignature ELSE u.bobSignature) # NoSignature
    /\ u.fromIdentifier = p
    /\ u.toIdentifier = Other(p)

\* C27: every update generateUpdate returns carries one signature, in slot 0
\* when the caller is alice and in slot 1 when the caller is bob, the other
\* slot being empty; it is from the caller and to the counterparty.
C27_SignatureBinding ==
    (Generated /\ returned = "ok")
        => LET p == calls[1].arg.signer
           IN  /\ sent[p].type \in UpdateTypes
               /\ SignedBy(sent[p], p)
               /\ sent[Other(p)] = NoUpdate

C27_Witness ==
    /\ returned = "ok"
    /\ sent["bob"].type = "create"
    /\ sent["bob"].fromIdentifier = "bob"
    /\ sent["bob"].bobSignature # NoSignature
    /\ sent["bob"].aliceSignature = NoSignature
    /\ sent["alice"] = NoUpdate

\* What a generated deposit has whatever bob's amount is: the deposit nonce
\* read on chain, alice's amount, and the two balances of the tests.
DepositOfAlice(u, state) ==
    LET prev == PrevBalance(state, u.assetId)
        newAlice == IF chain.depositNonce > state.latestDepositNonce
                    THEN prev[1] + chain.depositAmount
                    ELSE prev[1]
    IN  /\ u.details.latestDepositNonce = chain.depositNonce
        /\ u.balance[1] = newAlice
        /\ (/\ prev = <<0, 0>>
            /\ PrevLocked(state, u.assetId) = 0
            /\ state.latestDepositNonce = 0
            /\ chain.balance = TestOnchain)
           => /\ chain.depositNonce = 0 => u.balance = <<0, TestOnchain>>
              /\ (chain.depositNonce = 1 /\ chain.depositAmount = TestOnchain)
                    => u.balance = <<TestOnchain, 0>>

\* The call returned a generated deposit.
GeneratesDeposit ==
    /\ Generated
    /\ calls[1].arg.params.type = "deposit"
    /\ returned = "ok"

C29_Create ==
    (Generated /\ calls[1].arg.params \in TestCreateParams) =>
        LET p == calls[1].arg.signer
            params == calls[1].arg.params
            state == store["alice"].channel
            prev == PrevBalance(state, params.assetId)
            s == Slot(p)
            u == sent[p]
        IN  IF prev[s] < params.amount
            THEN returned = "CannotGenerate" /\ sent = [q \in Peers |-> NoUpdate]
            ELSE /\ returned = "ok"
                 /\ u.type = "create"
                 /\ u.assetId = params.assetId
                 /\ u.nonce = state.nonce + 1
                 /\ u.balance[s] = prev[s] - params.amount
                 /\ u.balance[3 - s] = prev[3 - s]
                 /\ u.details.transferInitialBalance[s] = params.amount

C29_Witness ==
    /\ returned = "ok"
    /\ sent["bob"].type = "create"
    /\ sent["bob"].assetId = AssetId
    /\ store["alice"].channel.assetIds = <<AssetId>>
    /\ store["alice"].channel.balances = << <<0, MaxAmount>> >>
    /\ sent["bob"].nonce = store["alice"].channel.nonce + 1
    /\ sent["bob"].balance = <<0, 0>>
    /\ sent["bob"].details.transferInitialBalance = <<0, MaxAmount>>

\* C30: generateUpdate for resolve returns an update whose balance is, slot
\* by slot, the asset's previous balance plus the resolver output (also when
\* the transfer's `to` addresses are not the channel participants) and whose
\* details.merkleRoot is the root over the active transfers without the
\* resolved one (the zero hash when none remain); when the transfer is not
\* among the stored active transfers the result is CannotGenerate.
C30_Resolve ==
    (Generated /\ calls[1].arg.params \in TestResolveParams) =>
        LET p == calls[1].arg.signer
            params == calls[1].arg.params
            state == store["alice"].channel
            active == store["alice"].activeTransfers
            found == {t \in active : t.transferId = params.transferId}
            u == sent[p]
        IN  IF found = {}
            THEN returned = "CannotGenerate" /\ sent = [q \in Peers |-> NoUpdate]
            ELSE \A t \in found :
                    LET prev == PrevBalance(state, t.assetId)
                        out == Resolve(t, params.transferResolver)
                    IN  /\ returned = "ok"
                        /\ u.type = "resolve"
                        /\ u.assetId = t.assetId
                        /\ \A k \in 1..2 : u.balance[k] = prev[k] + out[k]
                        /\ u.details.merkleRoot = RootOfActive(active \ {t})
                        /\ active = {t} => u.details.merkleRoot = ZeroHash

C30_Witness ==
    /\ returned = "ok"
    /\ sent["bob"].type = "resolve"
    /\ sent["bob"].details.transferId = 1
    /\ sent["bob"].details.transferResolver = "toSecond"
    /\ \E t \in store["alice"].activeTransfers :
          /\ t.transferId = 1
          /\ t.initialBalance = [amount |-> <<MaxAmount, 0>>, to |-> ExternalTo]
          /\ store["alice"].activeTransfers # {t}
          /\ sent["bob"].balance =
                <<PrevBalance(store["alice"].channel, t.assetId)[1],
                  PrevBalance(store["alice"].channel, t.assetId)[2] + MaxAmount>>
    /\ sent["bob"].details.merkleRoot # ZeroHash

\* C31: generateUpdate is read-only: a call writes nothing to the store and
\* puts no message on its way; when a read of the chain the call depends on
\* (getLatestDepositByAssetId or getChannelOnchainBalance of a deposit, the
\* resolver of a stored transfer) fails, the call returns an error, no update
\* comes out for the peer and the persisted state is unchanged.
C31_ReadOnly ==
    /\ (returned = "none" =>
            \A p \in Peers, params \in TestDepositParams \cup TestResolveParams,
               failing \in ChainReads :
               \/ params.type = "deposit" /\ failing # "resolve"
               \/ /\ params.type = "resolve" /\ failing = "resolve"
                  /\ \E t \in store["alice"].activeTransfers :
                        t.transferId = params.transferId
               => generateUpdateReading(params, store["alice"].channel,
                                        store["alice"].activeTransfers, chain, p,
                                        failing)
                     = Fail("ChainServiceFailure", NoGenerated))
    /\ calls # <<>> =>
          /\ calls[1].fn = "generateUpdate"
          /\ store = [p \in Peers |->
                         IF p = "alice"
                         THEN [channel |-> calls[1].arg.state,
                               activeTransfers |-> calls[1].arg.active]
                         ELSE EmptyStore]
          /\ chain = calls[1].arg.chain
          /\ persisted = {}
          /\ ledger = [p \in Peers |-> NoLedger]
          /\ inbox = [p \in Peers |-> NoMessage]
          /\ returned \notin {"ok", "none"} => sent = [p \in Peers |-> NoUpdate]

\* A deposit that the chain's balance would have let through was refused for
\* the failed read.
C31_Witness ==
    /\ returned = "ChainServiceFailure"
    /\ sent = [p \in Peers |-> NoUpdate]
    /\ store["alice"].channel.assetIds = <<AssetId>>
    /\ store["alice"].channel.balances = << <<0, MaxAmount>> >>
    /\ store["alice"].channel.lockedBalance = <<0>>
    /\ chain.balance = MaxChain
    /\ persisted = {}

\* C32: restoreState takes a channel that is absent from the local store as
\* having nonce 0 and fails with "Restore failed: syncable state" whenever
\* the returned nonce less the local nonce is at most 1, the returned nonce
\* being lower than the local one included, without saving; so a restore
\* never lowers the local nonce, never raises it by less than 2, and a peer
\* state of nonce 1 is never restored into an empty store.
C32_Syncable ==
    [][\A p \in Peers : \A fault \in RestoreFaults : \A io \in StoreFaults :
          RestoreVerify(p, fault, io) =>
              LET local == store[p].channel.nonce
                  toRestore == restore[p].data.channel.nonce
              IN  /\ toRestore - local <= 1 =>
                        /\ EndsWithError(returned')
                        /\ UNCHANGED <<store, persisted, ledger>>
                        /\ restore'[p].phase = "idle"
                        /\ (fault = "none" /\ io \in {"none", "saveFails", "confirmFails"})
                              => returned' = "Restore failed: syncable state"
                  /\ store'[p] # store[p] =>
                        /\ store'[p].channel.nonce >= local + 2
                        /\ ~(store[p] = EmptyStore /\ store'[p].channel.nonce = 1)]_vars

\* A restore into an empty store was refused because the peer's state has
\* nonce 1.
C32_Witness ==
    /\ returned = "Restore failed: syncable state"
    /\ store["bob"] = EmptyStore
    /\ store["alice"].channel.nonce = 1
    /\ restore["bob"].phase = "idle"
    /\ lock["alice"] = "restore"

\* The steps of p's restoreState follow one another: the request is sent by
\* the call, the checks run on the peer's answer, the save is the step that
\* sends the confirmation, and the ok result is returned (with the event
\* posted) on the answer to the confirmation.
C33_Step ==
    \A p \in Peers :
        /\ (restore[p].phase # "requested" /\ restore'[p].phase = "requested")
              => /\ restore[p].phase = "idle"
                 /\ store'[p] = store[p]
        /\ (restore[p].phase # "answered" /\ restore'[p].phase = "answered")
              => restore[p].phase = "requested"
        /\ (restore[p].phase # "idle" /\ store'[p] # store[p])
              => /\ restore[p].phase = "answered"
                 /\ RestoreChecks(store'[p], store[p].channel.nonce)
                 /\ store'[p].channel \in persisted'
        /\ (restore[p].phase # "confirming" /\ restore'[p].phase = "confirming")
              => /\ restore[p].phase = "answered"
                 /\ store'[p] # store[p]
                 /\ store'[p] = restore[p].data
                 /\ returned' = "none"
        /\ (restore[p].phase # "idle" /\ restore'[p].phase = "idle"
               /\ returned' = ChannelAddress)
              => /\ restore[p].phase = "confirming"
                 /\ HandleRestoreConfirm(Other(p))
                 /\ store'[p] = store[p]

\* C33: restoreState sends the restore request, then runs the four
\* verifications, then saves, then sends the confirmation, then posts
\* RESTORE_STATE_EVENT; the event is posted and the ok result (the channel
\* address) returned only if the save succeeded and the confirmation was
\* sent without error.
C33_Order ==
    /\ [](\A p \in Peers :
            restore[p].phase = "confirming"
               => /\ store[p].channel \in persisted
                  /\ BothSignaturesValid(store[p].channel.latestUpdate)
                  /\ RootOfActive(store[p].activeTransfers) = store[p].channel.merkleRoot)
    /\ [][C33_Step]_vars

\* restoreState returned the channel address after it restored a channel
\* that holds an active transfer.
C33_Witness ==
    /\ returned = ChannelAddress
    /\ restore["bob"].phase = "idle"
    /\ store["bob"].activeTransfers # {}
    /\ store["bob"] = store["alice"]
    /\ store["bob"].channel \in persisted

\* The restorer's call goes on (its request is answered or times out, the
\* answer to its confirmation arrives) and the peer's wait times out.
RestoreFairSpec ==
    /\ Spec
    /\ \A p \in Peers : /\ WF_vars(RestoreFailed(p))
                        /\ WF_vars(HandleRestoreConfirm(p))
                        /\ WF_vars(RestoreLockTimeout(p))

MaxLockValue == 3

LockNames == <<"lock-1", "lock-2", "lock-3", "lock-4", "lock-5", "lock-6">>

LockValues == {LockNames[i] : i \in 1..MaxLockValue}

\* What a call ends with: the Result it returns (thrown: an exception
\* escaped it instead).
Returns(res) == [thrown |-> FALSE, result |-> res]

\* lockService.acquireLock(channelAddress, isAlice, counterpartyIdentifier)
AcquireLockCall(p, address) ==
    [fn |-> "acquireLock", address |-> address, value |-> Undefined,
     isAlice |-> (p = Participants[1]), counterparty |-> Other(p)]

\* lockService.releaseLock(channelAddress, lockValue, isAlice, counterpartyIdentifier)
ReleaseLockCall(p, address, value) ==
    [fn |-> "releaseLock", address |-> address, value |-> value,
     isAlice |-> (p = Participants[1]), counterparty |-> Other(p)]

\* A release that deletes the entry whether or not the lock service released.
ReleaseRestoreLocksForgetting(p, address, outcome) ==
    /\ calls' = <<ReleaseLockCall(p, address, restoreLocks[p][address])>>
    /\ restoreLocks' = [restoreLocks EXCEPT ![p][address] = Undefined]
    /\ returned' = IF outcome = "throws"
                   THEN Returns(Fail("Failed to release restore lock", Undefined))
                   ELSE Returns(Ok(Undefined))
    /\ UNCHANGED <<store, lock, pending, restore, sent, inbox, chain, ledger,
                   persisted, base, env, otherLock, tie>>

\* acquireRestoreLocks(channel) of p's engine: the value acquireLock returns
\* is kept under the channel's address; an acquireLock that throws is caught
\* and returned as an EngineError.
AcquireRestoreLocks(p, address, outcome) ==
    /\ calls' = <<AcquireLockCall(p, address)>>
    /\ IF outcome = "throws"
       THEN /\ returned' = Returns(Fail("Failed to acquire restore lock", Undefined))
            /\ UNCHANGED restoreLocks
       ELSE /\ restoreLocks' = [restoreLocks EXCEPT ![p][address] = outcome]
            /\ returned' = Returns(Ok(Undefined))
    /\ UNCHANGED <<store, lock, pending, restore, sent, inbox, chain, ledger,
                   persisted, base, env, otherLock, tie>>

\* releaseRestoreLocks(channel) of p's engine: releaseLock is passed the
\* stored value; the entry is deleted after a release that did not throw.
ReleaseRestoreLocks(p, address, outcome) ==
    /\ calls' = <<ReleaseLockCall(p, address, restoreLocks[p][address])>>
    /\ IF outcome = "throws"
       THEN /\ returned' = Returns(Fail("Failed to release restore lock", Undefined))
            /\ UNCHANGED restoreLocks
       ELSE /\ restoreLocks' = [restoreLocks EXCEPT ![p][address] = Undefined]
            /\ returned' = Returns(Ok(Undefined))
    /\ UNCHANGED <<store, lock, pending, restore, sent, inbox, chain, ledger,
                   persisted, base, env, otherLock, tie>>

LockInit ==
    /\ Quiet
    /\ env = "network"
    /\ store = [p \in Peers |-> SetUp]
    /\ chain = NoChain
    /\ ledger = [p \in Peers |-> NoLedger]
    /\ persisted = {SetUp.channel}
    /\ base = SetUp.channel.nonce

LockNext ==
    \/ \E p \in Peers, address \in Addresses, outcome \in LockValues \cup {"throws"} :
          AcquireRestoreLocks(p, address, outcome)
    \/ \E p \in Peers, address \in Addresses, outcome \in {"ok", "throws"} :
          ReleaseRestoreLocks(p, address, outcome)

LockSpec == LockInit /\ [][LockNext]_vars

\* C35: after acquireRestoreLocks(channel) succeeds, restoreLocks[channelAddress]
\* holds the value lockService.acquireLock returned; releaseRestoreLocks passes
\* exactly the stored value to lockService.releaseLock and deletes the entry
\* only when the release succeeded; when acquireLock or releaseLock throws
\* the map is left unchanged and an EngineError result is returned, not an
\* exception.
C35_RestoreLocks ==
    [][/\ \A p \in Peers, address \in Addresses, outcome \in LockValues \cup {"throws"} :
            AcquireRestoreLocks(p, address, outcome) =>
                /\ ~returned'.thrown
                /\ IF outcome = "throws"
                   THEN /\ restoreLocks' = restoreLocks
                        /\ returned'.result.isError
                        /\ returned'.result.error = "Failed to acquire restore lock"
                   ELSE /\ restoreLocks'[p][address] = outcome
                        /\ ~returned'.result.isError
                        /\ \A q \in Peers, a \in Addresses :
                              <<q, a>> # <<p, address>>
                                 => restoreLocks'[q][a] = restoreLocks[q][a]
       /\ \A p \in Peers, address \in Addresses, outcome \in {"ok", "throws"} :
            ReleaseRestoreLocks(p, address, outcome) =>
                /\ ~returned'.thrown
                /\ Len(calls') = 1
                /\ calls'[1].fn = "releaseLock"
                /\ calls'[1].address = address
                /\ calls'[1].value = restoreLocks[p][address]
                /\ IF outcome = "throws"
                   THEN /\ restoreLocks' = restoreLocks
                        /\ returned'.result.isError
                        /\ returned'.result.error = "Failed to release restore lock"
                   ELSE /\ restoreLocks'[p][address] = Undefined
                        /\ ~returned'.result.isError
                        /\ \A q \in Peers, a \in Addresses :
                              <<q, a>> # <<p, address>>
                                 => restoreLocks'[q][a] = restoreLocks[q][a]
       /\ \A p \in Peers, address \in Addresses :
            restoreLocks'[p][address] # restoreLocks[p][address]
               => ~returned'.result.isError]_vars

\* A release of alice's engine threw: the value it had stored for the
\* channel was passed to the lock service and is still in the map.
C35_Witness ==
    /\ calls = <<ReleaseLockCall("alice", ChannelAddress, LockNames[MaxLockValue])>>
    /\ returned = Returns(Fail("Failed to release restore lock", Undefined))
    /\ restoreLocks["alice"][ChannelAddress] = LockNames[MaxLockValue]

(***************************************************************************)
(* The router's forwarding: attemptTransferWithCollateralization and       *)
(* cancelCreatedTransfer, called one after another by one caller.  The     *)
(* node service, the router's store and justInTimeCollateral are the       *)
(* environment: each of their answers is an input of the step.  calls      *)
(* begins with the invocation and its arguments and goes on with every     *)
(* call the operation made, each with what it answered.                    *)
(***************************************************************************)
\* NodeParams.ConditionalTransfer, as far as the forwarding reads it.
RouterParams ==
    {[channelAddress |-> a, assetId |-> Assets[k], amount |-> n, routingId |-> r] :
        a \in Addresses, k \in 1..Len(Assets), n \in 1..MaxAmount,
        r \in 1..MaxTransfers}

TransferDefinitions == {"HashlockTransfer", "Withdraw"}

\* The FullTransferState to cancel, as far as cancelCreatedTransfer reads it.
RouterTransfers ==
    {[channelAddress |-> a, transferId |-> id, transferDefinition |-> d] :
        a \in Addresses, id \in 1..MaxTransfers, d \in TransferDefinitions}

\* ServerNodeError.reasons a resolve of the node can fail with.
ResolveTimeout == "Timeout"

ResolveErrors == {ResolveTimeout, "Failed to send request"}

\* The reasons a forwarding was given up for, handed on to the cancellation.
CancellationReasons == {"ReceiverOffline", "UnableToCollateralize"}

\* new ForwardTransferCreationError(reason, channelAddress, context)
ForwardTransferCreationError(reason, address, context) ==
    [message |-> reason, channelAddress |-> address, context |-> context]

\* The context of a creation error (the serialised cause is left out).
CreationContext(params, shouldCancelSender) ==
    [shouldCancelSender |-> shouldCancelSender, params |-> params]

RefusesOfflineNever(available, requireOnline) == FALSE

\* if (!available && requireOnline)
RefusesOffline(available, requireOnline) == ~available /\ requireOnline

CollateralErrorIgnored(available, collateralError) == FALSE

\* if (available && collateralError)
CollateralBlocks(available, collateralError) == available /\ collateralError

ForwardingFailureCancels(address, params) ==
    ForwardTransferCreationError("ErrorForwardingTransfer", address,
                                 CreationContext(params, TRUE))

\* The error of a conditionalTransfer that failed: the receiver may be
\* withholding its signature, so the sender transfer is not to be cancelled.
ForwardingFailure(address, params) ==
    ForwardTransferCreationError("ErrorForwardingTransfer", address,
                                 CreationContext(params, FALSE))

\* attemptTransferWithCollateralization(params, channel, ..., requireOnline)
\* with the answers of justInTimeCollateral ("ok", "error"), of
\* sendIsAliveMessage ("ok", "error", "throws"), of store.queueUpdate ("ok",
\* "throws") and of conditionalTransfer ("ok", "error"): the calls made and
\* the Result returned.
attemptTransferWithCollateralization(params, requireOnline, collateral, alive, queue, transfer) ==
    LET address == params.channelAddress
        begun == <<Invoked("attemptTransferWithCollateralization",
                           [params |-> params, requireOnline |-> requireOnline]),
                   Called("justInTimeCollateral",
                          [channelAddress |-> address, assetId |-> params.assetId,
                           amount |-> params.amount], collateral)>>
        collateralError == collateral = "error"
        pinged == Append(begun, Called("sendIsAliveMessage",
                                       [channelAddress |-> address, skipCheckIn |-> TRUE],
                                       alive))
        available == alive = "ok"
        queued == Append(pinged, Called("queueUpdate",
                                        [channelAddress |-> address,
                                         type |-> "TRANSFER_CREATION",
                                         params |-> params], queue))
        created == Append(pinged, Called("conditionalTransfer", params, transfer))
        failure(reason) ==
            Fail(ForwardTransferCreationError(reason, address, CreationContext(params, TRUE)),
                 Undefined)
    IN  IF collateralError /\ requireOnline
        THEN [calls |-> begun, result |-> failure("UnableToCollateralize")]
        ELSE IF RefusesOffline(available, requireOnline)
        THEN [calls |-> pinged, result |-> failure("ReceiverOffline")]
        ELSE IF ~available /\ ~requireOnline
        THEN [calls |-> queued,
              result |-> IF queue = "throws"
                         THEN failure("ErrorQueuingReceiverUpdate")
                         ELSE Ok(Undefined)]
        ELSE IF CollateralBlocks(available, collateralError)
        THEN [calls |-> pinged, result |-> failure("UnableToCollateralize")]
        ELSE [calls |-> created,
              result |-> IF transfer = "error"
                         THEN Fail(ForwardingFailure(address, params), Undefined)
                         ELSE Ok([channelAddress |-> address,
                                  routingId |-> params.routingId])]

EnqueuesAnyFailure(enqueue, message) == enqueue

\* if (enqueue && resolveResult.getError()!.message === ...reasons.Timeout)
EnqueuesCancellation(enqueue, message) == enqueue /\ message = ResolveTimeout

\* cancelCreatedTransfer(cancellationReason, toCancel, ..., context = {},
\* enqueue) with the answers of getRegisteredTransfers ("error", or whether
\* the registry holds the transfer's definition: "registered",
\* "unregistered"), of resolveTransfer ("ok" or the message of its error)
\* and of store.queueUpdate ("ok", "throws").
cancelCreatedTransfer(cancellationReason, toCancel, enqueue, lookup, resolve, queue) ==
    LET address == toCancel.channelAddress
        begun == <<Invoked("cancelCreatedTransfer",
                           [cancellationReason |-> cancellationReason,
                            toCancel |-> toCancel, enqueue |-> enqueue]),
                   Called("getRegisteredTransfers", Undefined, lookup)>>
        resolveParams == [channelAddress |-> address,
                          transferId |-> toCancel.transferId,
                          cancellationReason |-> cancellationReason]
        resolved == Append(begun, Called("resolveTransfer", resolveParams, resolve))
        queued == Append(resolved, Called("queueUpdate",
                                          [channelAddress |-> address,
                                           type |-> "TRANSFER_RESOLUTION",
                                           params |-> resolveParams], queue))
        failure(cancellationError, queueError) ==
            Fail(ForwardTransferCreationError("FailedToCancelSenderTransfer", address,
                    [cancellationError |-> cancellationError,
                     cancellationReason |-> cancellationReason,
                     queueError |-> queueError]),
                 Undefined)
    IN  IF lookup = "error"
        THEN [calls |-> begun, result |-> failure("error", Undefined)]
        ELSE IF lookup = "unregistered"
        THEN [calls |-> begun,
              result |-> failure("Sender transfer not in registry info", Undefined)]
        ELSE IF resolve = "ok"
        THEN [calls |-> resolved,
              result |-> Ok([channelAddress |-> address,
                             transferId |-> toCancel.transferId])]
        ELSE IF EnqueuesCancellation(enqueue, resolve)
        THEN [calls |-> queued,
              result |-> IF queue = "throws"
                         THEN failure(resolve, "throws")
                         ELSE Ok(Undefined)]
        ELSE [calls |-> resolved, result |-> failure(resolve, Undefined)]

\* The forwarding of one transfer is attempted, once.
AttemptTransferWithCollateralization(params, requireOnline, collateral, alive, queue, transfer) ==
    LET done == attemptTransferWithCollateralization(params, requireOnline, collateral,
                                                     alive, queue, transfer)
    IN  /\ calls = <<>>
        /\ calls' = done.calls
        /\ returned' = Returns(done.result)
        /\ UNCHANGED <<store, lock, pending, restore, sent, inbox, chain, ledger,
                       persisted, base, env, otherLock, tie, restoreLocks>>

\* The cancellation of one sender transfer is attempted, once.
CancelCreatedTransfer(cancellationReason, toCancel, enqueue, lookup, resolve, queue) ==
    LET done == cancelCreatedTransfer(cancellationReason, toCancel, enqueue, lookup,
                                      resolve, queue)
    IN  /\ calls = <<>>
        /\ calls' = done.calls
        /\ returned' = Returns(done.result)
        /\ UNCHANGED <<store, lock, pending, restore, sent, inbox, chain, ledger,
                       persisted, base, env, otherLock, tie, restoreLocks>>

RouterInit ==
    /\ Quiet
    /\ env = "network"
    /\ store = [p \in Peers |-> SetUp]
    /\ chain = NoChain
    /\ ledger = [p \in Peers |-> NoLedger]
    /\ persisted = {SetUp.channel}
    /\ base = SetUp.channel.nonce

RouterNext ==
    \/ \E params \in RouterParams, requireOnline \in BOOLEAN,
          collateral \in {"ok", "error"}, alive \in {"ok", "error", "throws"},
          queue \in {"ok", "throws"}, transfer \in {"ok", "error"} :
          AttemptTransferWithCollateralization(params, requireOnline, collateral,
                                               alive, queue, transfer)
    \/ \E cancellationReason \in CancellationReasons, toCancel \in RouterTransfers,
          enqueue \in BOOLEAN, lookup \in {"error", "unregistered", "registered"},
          resolve \in {"ok"} \cup ResolveErrors, queue \in {"ok", "throws"} :
          CancelCreatedTransfer(cancellationReason, toCancel, enqueue, lookup,
                                resolve, queue)

RouterSpec == RouterInit /\ [][RouterNext]_vars

\* The answer the last operation got from its call of fn ("none": it made no
\* such call).
AnswerOf(fn) ==
    IF \E i \in 1..Len(calls) : calls[i].fn = fn
    THEN calls[CHOOSE i \in 1..Len(calls) : calls[i].fn = fn].outcome
    ELSE "none"

Attempted == calls # <<>> /\ calls[1].fn = "attemptTransferWithCollateralization"

Cancelled == calls # <<>> /\ calls[1].fn = "cancelCreatedTransfer"

\* C36: attemptTransferWithCollateralization calls conditionalTransfer only
\* after justInTimeCollateral answered without an error and the isAlive
\* message to the recipient succeeded; whatever requireOnline is, no transfer
\* is created with the recipient in any other case.
C36_TransferOnlyWhenSafe ==
    Attempted =>
        /\ AnswerOf("conditionalTransfer") # "none"
              => /\ AnswerOf("justInTimeCollateral") = "ok"
                 /\ AnswerOf("sendIsAliveMessage") = "ok"
        /\ (AnswerOf("justInTimeCollateral") # "ok"
              \/ AnswerOf("sendIsAliveMessage") # "ok")
              => \A i \in 1..Len(calls) : calls[i].fn # "conditionalTransfer"

C36_Witness ==
    /\ Attempted
    /\ ~calls[1].arg.requireOnline
    /\ AnswerOf("justInTimeCollateral") = "error"
    /\ AnswerOf("sendIsAliveMessage") = "ok"
    /\ returned.result.isError
    /\ returned.result.error.message = "UnableToCollateralize"

C38_ShouldCancelSender ==
    (Attempted /\ returned.result.isError) =>
        LET error == returned.result.error
        IN  /\ error.context.shouldCancelSender
                  <=> error.message # "ErrorForwardingTransfer"
            /\ error.message = "ErrorForwardingTransfer"
                  <=> AnswerOf("conditionalTransfer") = "error"
            /\ AnswerOf("conditionalTransfer") # "none"
                  => ~error.context.shouldCancelSender

C38_Witness ==
    /\ Attempted
    /\ AnswerOf("conditionalTransfer") = "error"
    /\ returned.result.isError
    /\ returned.result.error.message = "ErrorForwardingTransfer"
    /\ ~returned.result.error.context.shouldCancelSender

\* C39: cancelCreatedTransfer returns ok(undefined) exactly when the
\* cancelling resolveTransfer failed with the Timeout reason, enqueue is true
\* and store.queueUpdate of the TRANSFER_RESOLUTION succeeded; a resolve that
\* succeeds is returned as it is; every other case (registry lookup failed,
\* definition not registered, another resolve error, enqueue false,
\* queueUpdate failed) ends with the error FailedToCancelSenderTransfer.
C39_Cancellation ==
    Cancelled =>
        LET enqueue == calls[1].arg.enqueue
            toCancel == calls[1].arg.toCancel
            resolve == AnswerOf("resolveTransfer")
            queue == AnswerOf("queueUpdate")
            result == returned.result
            enqueued == resolve = ResolveTimeout /\ enqueue /\ queue = "ok"
        IN  /\ resolve = "ok"
                  => /\ ~result.isError
                     /\ result.value = [channelAddress |-> toCancel.channelAddress,
                                        transferId |-> toCancel.transferId]
            /\ resolve # "ok"
                  => /\ enqueued <=> (~result.isError /\ result.value = Undefined)
                     /\ ~enqueued
                           => /\ result.isError
                              /\ result.error.message = "FailedToCancelSenderTransfer"
            /\ queue # "none"
                  => /\ calls[Len(calls)].arg.type = "TRANSFER_RESOLUTION"
                     /\ calls[Len(calls)].arg.params = calls[Len(calls) - 1].arg

C39_Witness ==
    /\ Cancelled
    /\ calls[1].arg.enqueue
    /\ AnswerOf("resolveTransfer") = ResolveTimeout
    /\ AnswerOf("queueUpdate") = "ok"
    /\ ~returned.result.isError
    /\ returned.result.value = Undefined

(***************************************************************************)
(* Result on its own: results made by Result.ok and Result.fail out of     *)
(* values and Error objects, read with getValue and getError and passed    *)
(* through toJson and fromJson, one call after another.  calls holds the   *)
(* invocation, returned what it ended with.  An Error is a record of its   *)
(* class, its message and stack (which are no enumerable properties) and   *)
(* the enumerable properties a VectorError adds; NoError is undefined      *)
(* where an error is expected.                                             *)
(***************************************************************************)
NoError ==
    [class |-> Undefined, message |-> Undefined, stack |-> Undefined,
     context |-> Undefined, type |-> Undefined]

\* MessagingError.reasons
ErrorMessages == {"Request timed out", "Unknown messaging error"}

\* new Error(message), and the errors of the package: a VectorError with its
\* type and context.
Errors ==
    {[class |-> "Error", message |-> m, stack |-> "stack",
      context |-> Undefined, type |-> Undefined] : m \in ErrorMessages}
    \cup {[class |-> "VectorError", message |-> m, stack |-> "stack",
           context |-> c, type |-> t] :
             m \in ErrorMessages, c \in Addresses, t \in {"MessagingError", "EngineError"}}

\* if (error)
Truthy(error) == error.class # Undefined

\* new Result(error, value)
NewResult(error, value) ==
    IF Truthy(error)
    THEN [isError |-> TRUE, error |-> error, value |-> Undefined]
    ELSE [isError |-> FALSE, error |-> NoError, value |-> value]

\* Result.ok(result)
ResultOk(result) == NewResult(NoError, result)

\* Result.fail(error)
ResultFail(error) == NewResult(error, Undefined)

\* getValue(): throws on an error result.
getValue(r) ==
    IF r.isError THEN [thrown |-> TRUE, result |-> CantGetValue]
    ELSE Returns(r.value)

\* getError(): undefined on a result that is no error.
getError(r) == IF r.isError THEN r.error ELSE NoError

\* error instanceof Error
InstanceOfError(error) == error.class \in {"Error", "VectorError"}

toJsonSpreadOnly(r) ==
    IF ~r.isError
    THEN [isError |-> FALSE, error |-> NoError, value |-> r.value]
    ELSE [isError |-> TRUE,
          error |-> IF InstanceOfError(r.error)
                    THEN [r.error EXCEPT !.class = "Object", !.stack = Undefined,
                                         !.message = Undefined]
                    ELSE r.error,
          value |-> Undefined]

\* toJson(): an Error becomes a plain object of its enumerable properties
\* and its message; any other error is handed on as it is.
toJson(r) ==
    IF ~r.isError
    THEN [isError |-> FALSE, error |-> NoError, value |-> r.value]
    ELSE [isError |-> TRUE,
          error |-> IF InstanceOfError(r.error)
                    THEN [r.error EXCEPT !.class = "Object", !.stack = Undefined]
                    ELSE r.error,
          value |-> Undefined]

\* Result.fromJson(json)
fromJson(json) == IF json.isError THEN ResultFail(json.error) ELSE ResultOk(json.value)

\* The last call made a Result.
HoldsResult ==
    calls # <<>> /\ calls[1].fn \in {"Result.ok", "Result.fail", "Result.fromJson"}

ResultUnchanged ==
    UNCHANGED <<store, lock, pending, restore, sent, inbox, chain, ledger,
                persisted, base, env, otherLock, tie, restoreLocks>>

MakeOk(v) ==
    /\ calls' = <<Invoked("Result.ok", v)>>
    /\ returned' = Returns(ResultOk(v))
    /\ ResultUnchanged

MakeFail(e) ==
    /\ calls' = <<Invoked("Result.fail", e)>>
    /\ returned' = Returns(ResultFail(e))
    /\ ResultUnchanged

\* r.getValue() of the result at hand
GetValue ==
    /\ HoldsResult
    /\ calls' = <<Invoked("getValue", returned.result)>>
    /\ returned' = getValue(returned.result)
    /\ ResultUnchanged

\* r.getError() of the result at hand
GetError ==
    /\ HoldsResult
    /\ calls' = <<Invoked("getError", returned.result)>>
    /\ returned' = Returns(getError(returned.result))
    /\ ResultUnchanged

\* Result.fromJson(r.toJson()) of the result at hand
RoundTrip ==
    /\ HoldsResult
    /\ calls' = <<Invoked("Result.fromJson", returned.result)>>
    /\ returned' = Returns(fromJson(toJson(returned.result)))
    /\ ResultUnchanged

ResultInit ==
    /\ Quiet
    /\ env = "network"
    /\ store = [p \in Peers |-> SetUp]
    /\ chain = NoChain
    /\ ledger = [p \in Peers |-> NoLedger]
    /\ persisted = {SetUp.channel}
    /\ base = SetUp.channel.nonce

ResultNext ==
    \/ \E v \in {Undefined} \cup Addresses : MakeOk(v)
    \/ \E v \in RouterTransfers : MakeOk(v)
    \/ \E e \in Errors : MakeFail(e)
    \/ GetValue
    \/ GetError
    \/ RoundTrip

ResultSpec == ResultInit /\ [][ResultNext]_vars

\* C40: Result.ok(v) has isError = false, getValue() = v and getError() =
\* undefined; Result.fail(e) of an error e has isError = true, getError() = e
\* and a getValue() that throws; Result.fromJson(r.toJson()) has the isError
\* of r, the value of r when r is ok and an error with the message of r's
\* error when r is an error.
C40_Result ==
    (calls # <<>>) =>
        LET fn == calls[1].fn
            arg == calls[1].arg
        IN  /\ fn = "Result.ok"
                  => /\ ~returned.result.isError
                     /\ getValue(returned.result) = Returns(arg)
                     /\ getError(returned.result) = NoError
            /\ fn = "Result.fail"
                  => /\ returned.result.isError
                     /\ getError(returned.result) = arg
                     /\ getValue(returned.result).thrown
            /\ fn = "Result.fromJson"
                  => /\ returned.result.isError = arg.isError
                     /\ ~arg.isError
                           => getValue(returned.result) = getValue(arg)
                     /\ arg.isError
                           => getError(returned.result).message = getError(arg).message
            /\ fn = "getValue"
                  => returned.thrown = arg.isError
            /\ fn = "getError"
                  => returned.result = (IF arg.isError THEN arg.error ELSE NoError)

C40_Witness ==
    /\ calls # <<>>
    /\ calls[1].fn = "Result.fromJson"
    /\ calls[1].arg.isError
    /\ calls[1].arg.error.class = "VectorError"
    /\ returned.result.isError
    /\ returned.result.error.class = "Object"
    /\ returned.result.error.message = calls[1].arg.error.message
====
